---- MODULE Spec2Model ----
(***************************************************************************)
(* A model of dux: the arena tree of dux-core (tree/arena.rs, tree/node.rs),*)
(* the scanner's consumer and heartbeat threads (scanner/walker.rs) and the *)
(* delete orchestration of the terminal app (dux-cli app/state.rs).         *)
(*                                                                         *)
(* A NodeId is a natural number; slot i of the arena is element i+1 of the  *)
(* sequence that models Vec<Option<TreeNode>>.  A tombstone (None) is the   *)
(* record Tombstone, whose field live is FALSE.  Option<NodeId> is a NodeId *)
(* or NoParent.  Sizes are u64 in the code; the model works far below 2^64, *)
(* so additions never wrap, and saturating_sub is modelled as such.         *)
(***************************************************************************)
EXTENDS Integers, Sequences, FiniteSets, TLC

VARIABLES
    tree,   \* the DiskTree driven through its public operations
    op,     \* the last operation called on tree, its arguments and its result
    issued, \* the NodeIds add_node has returned so far
    scan,   \* one run of Scanner::scan_sync: its thread, its heartbeat, its channel
    app,    \* the AppState of the terminal app
    del,    \* the delete threads the app has spawned, and their channels
    call    \* one call of a function without state: its arguments, its result

treeVars == << tree, op, issued >>

appVars == << app, del >>

vars == << tree, op, issued, scan, app, del, call >>

\* ------------------------------------------------------------------ bounds
MaxNodes == 3      \* arena slots (root included) the tree specification builds
MaxSize == 1       \* largest size handed to set_size
MaxEntries == 2    \* entries the walker yields to one scan
MaxBeats == 2      \* Progress messages the heartbeat sends in one scan
VisibleHeight == 2 \* rows of the list area, which the UI stores in visible_height
MaxHistory == 1    \* drill-downs the user stacks up before going back
MaxDeletes == 1    \* delete threads the app spawns in one session
MaxPathLen == 4    \* pieces of a candidate path handed to the path filter
MaxRootLen == 2    \* pieces of the scan root handed to the path filter
MaxDirs == 33      \* directories below the root of the largest cached tree
MaxArtifactNodes == 3  \* entries below the root of a tree of the artifact view
MaxClock == 1      \* days that go by while the views are shown

\* ------------------------------------------------------- tree/node.rs
ROOT == 0
NoParent == -1

NodeKinds == {"Directory", "File", "Symlink"}

is_directory(kind) == kind = "Directory"

Tombstone ==
    [live |-> FALSE, name |-> "", kind |-> "Error", size |-> 0, file_count |-> 0,
     parent |-> NoParent, children |-> <<>>, depth |-> 0, is_expanded |-> FALSE]

TreeNode_new(name, kind, parent, depth) ==
    [live |-> TRUE, name |-> name, kind |-> kind, size |-> 0,
     file_count |-> IF kind = "File" THEN 1 ELSE 0,
     parent |-> parent, children |-> <<>>, depth |-> depth,
     is_expanded |-> (depth = 0)]

\* ------------------------------------------------------- tree/arena.rs
DiskTree_new(root_name) == << TreeNode_new(root_name, "Directory", NoParent, 0) >>

len(t) == Len(t)

Ids(t) == 0 .. (Len(t) - 1)

\* get(id).is_some()
IsLive(t, id) == id \in Ids(t) /\ t[id + 1].live

\* get(id).unwrap(); only used where IsLive(t, id)
get(t, id) == t[id + 1]

LiveIds(t) == {i \in Ids(t) : t[i + 1].live}

live_count(t) == Cardinality(LiveIds(t))

SeqToSet(s) == {s[i] : i \in 1 .. Len(s)}

\* add_node as it would be if it filled the lowest tombstoned slot, when there
\* is one, instead of always appending
add_node_reusing_slots(t, name, kind, parent) ==
    LET parent_depth == IF IsLive(t, parent) THEN get(t, parent).depth ELSE 0
        free == Ids(t) \ LiveIds(t)
        id == IF free = {} THEN Len(t) ELSE CHOOSE i \in free : \A j \in free : i <= j
        node == TreeNode_new(name, kind, parent, parent_depth + 1)
        pushed == IF free = {} THEN Append(t, node) ELSE [t EXCEPT ![id + 1] = node]
    IN  [tree |-> IF IsLive(pushed, parent)
                  THEN [pushed EXCEPT ![parent + 1].children = Append(@, id)]
                  ELSE pushed,
         id |-> id]

\* add_node: the tree after the call and the NodeId returned
add_node(t, name, kind, parent) ==
    LET parent_depth == IF IsLive(t, parent) THEN get(t, parent).depth ELSE 0
        id == Len(t)
        pushed == Append(t, TreeNode_new(name, kind, parent, parent_depth + 1))
    IN  [tree |-> IF IsLive(pushed, parent)
                  THEN [pushed EXCEPT ![parent + 1].children = Append(@, id)]
                  ELSE pushed,
         id |-> id]

set_size(t, id, size) ==
    IF IsLive(t, id) THEN [t EXCEPT ![id + 1].size = size] ELSE t

\* the sum, over the children sequence cs, of field f of the children that are live
RECURSIVE SumLive(_, _, _)
SumLive(t, cs, f) ==
    IF cs = <<>> THEN 0
    ELSE (IF IsLive(t, Head(cs)) THEN get(t, Head(cs))[f] ELSE 0)
         + SumLive(t, Tail(cs), f)

\* one iteration of the loop of aggregate_sizes, at index i
AggregateAt(t, i) ==
    IF t[i + 1].live /\ is_directory(t[i + 1].kind)
    THEN [t EXCEPT ![i + 1].size = SumLive(t, t[i + 1].children, "size"),
                   ![i + 1].file_count = SumLive(t, t[i + 1].children, "file_count")]
    ELSE t

\* the loop of aggregate_sizes as it would be if it ran from index 0 up to i
RECURSIVE AggregateAscending(_, _)
AggregateAscending(t, i) ==
    IF i < 0 THEN t ELSE AggregateAt(AggregateAscending(t, i - 1), i)

\* the loop of aggregate_sizes from index i down to 0
RECURSIVE AggregateFrom(_, _)
AggregateFrom(t, i) ==
    IF i < 0 THEN t ELSE AggregateFrom(AggregateAt(t, i), i - 1)

aggregate_sizes(t) == AggregateFrom(t, Len(t) - 1)

\* sizes snapshot of sort_by_size: a tombstone or an id beyond the arena is 0
SnapshotSize(t, id) == IF IsLive(t, id) THEN get(t, id).size ELSE 0

\* the insertion as it would be under an unstable sort: x goes before the
\* elements of its own size
RECURSIVE InsertBySizeUnstable(_, _, _)
InsertBySizeUnstable(t, s, x) ==
    IF s = <<>> THEN << x >>
    ELSE IF SnapshotSize(t, Head(s)) > SnapshotSize(t, x)
         THEN << Head(s) >> \o InsertBySizeUnstable(t, Tail(s), x)
         ELSE << x >> \o s

\* x put into the sequence s, which is non-increasing in size, behind every
\* element that is not smaller than x (a stable insertion)
RECURSIVE InsertBySize(_, _, _)
InsertBySize(t, s, x) ==
    IF s = <<>> THEN << x >>
    ELSE IF SnapshotSize(t, Head(s)) >= SnapshotSize(t, x)
         THEN << Head(s) >> \o InsertBySize(t, Tail(s), x)
         ELSE << x >> \o s

\* children.sort_by(|a, b| size_b.cmp(&size_a)): a stable sort, size descending
RECURSIVE SortChildren(_, _, _)
SortChildren(t, cs, acc) ==
    IF cs = <<>> THEN acc
    ELSE SortChildren(t, Tail(cs), InsertBySize(t, acc, Head(cs)))

sort_by_size(t) ==
    [i \in 1 .. Len(t) |->
        IF t[i].live THEN [t[i] EXCEPT !.children = SortChildren(t, @, <<>>)]
        ELSE t[i]]

\* collect_descendants as it would be if it collected nothing
collect_no_descendants(t, id) == <<>>

\* collect_descendants: depth first, each child followed by its own descendants
RECURSIVE collect_descendants(_, _)
RECURSIVE CollectOver(_, _)
CollectOver(t, cs) ==
    IF cs = <<>> THEN <<>>
    ELSE << Head(cs) >> \o collect_descendants(t, Head(cs)) \o CollectOver(t, Tail(cs))

collect_descendants(t, id) ==
    IF IsLive(t, id) THEN CollectOver(t, get(t, id).children) ELSE <<>>

SaturatingSub(a, b) == IF a >= b THEN a - b ELSE 0

\* children.retain as it would be if it dropped nothing
RetainAll(s, x) == s

\* children.retain(|&c| c != id)
RemoveFromSeq(s, x) == SelectSeq(s, LAMBDA c : c # x)

\* the loop of remove_node as it would be if it stopped at the parent
PropagateToParentOnly(t, current, size, file_count) ==
    IF current = NoParent \/ ~IsLive(t, current) THEN t
    ELSE [t EXCEPT ![current + 1].size = SaturatingSub(@, size),
                   ![current + 1].file_count = SaturatingSub(@, file_count)]

\* the loop of remove_node that walks from current up to the root
RECURSIVE PropagateDecrease(_, _, _, _)
PropagateDecrease(t, current, size, file_count) ==
    IF current = NoParent \/ ~IsLive(t, current) THEN t
    ELSE PropagateDecrease(
            [t EXCEPT ![current + 1].size = SaturatingSub(@, size),
                      ![current + 1].file_count = SaturatingSub(@, file_count)],
            get(t, current).parent, size, file_count)

\* the slots named by to_remove set to None
TombstoneAll(t, to_remove) ==
    [i \in 1 .. Len(t) |-> IF (i - 1) \in to_remove THEN Tombstone ELSE t[i]]

\* remove_node as it would be without its guard on NodeId::ROOT
remove_node_unguarded(t, id) ==
    IF ~IsLive(t, id) THEN [tree |-> t, ret |-> 0]
    ELSE LET node == get(t, id)
             unlinked == IF node.parent # NoParent /\ IsLive(t, node.parent)
                         THEN [t EXCEPT ![node.parent + 1].children =
                                            RemoveFromSeq(@, id)]
                         ELSE t
             to_remove == {id} \cup SeqToSet(collect_descendants(unlinked, id))
             tombstoned == TombstoneAll(unlinked, to_remove)
         IN  [tree |-> PropagateDecrease(tombstoned, node.parent,
                                         node.size, node.file_count),
              ret |-> node.size]

\* remove_node: the tree after the call and the value returned
remove_node(t, id) ==
    IF id = ROOT THEN [tree |-> t, ret |-> 0]
    ELSE IF ~IsLive(t, id) THEN [tree |-> t, ret |-> 0]
    ELSE LET node == get(t, id)
             unlinked == IF node.parent # NoParent /\ IsLive(t, node.parent)
                         THEN [t EXCEPT ![node.parent + 1].children =
                                            RemoveFromSeq(@, id)]
                         ELSE t
             to_remove == {id} \cup SeqToSet(collect_descendants(unlinked, id))
             tombstoned == TombstoneAll(unlinked, to_remove)
         IN  [tree |-> PropagateDecrease(tombstoned, node.parent,
                                         node.size, node.file_count),
              ret |-> node.size]

\* ------------------------------------------- the tree driven through its API
NoOp == [name |-> "new", id |-> NoParent, kind |-> "Directory", size |-> 0, ret |-> 0]

TreeIdle ==
    /\ tree = DiskTree_new("root")
    /\ op = NoOp
    /\ issued = {}

ScanIdle == scan = [pc |-> "idle"]

AppIdle == app = [mode |-> "idle"] /\ del = [threads |-> {}]  \* no app is running

CallIdle == call = [fn |-> "none"]

TreeInit ==
    /\ TreeIdle
    /\ ScanIdle
    /\ AppIdle
    /\ CallIdle

\* add_node under a live parent, as the scanner calls it
AddNode ==
    /\ Len(tree) < MaxNodes
    /\ \E kind \in NodeKinds, parent \in LiveIds(tree) :
          LET r == add_node(tree, "n", kind, parent)
          IN  /\ tree' = r.tree
              /\ op' = [NoOp EXCEPT !.name = "add_node", !.id = parent,
                                    !.kind = kind, !.ret = r.id]
              /\ issued' = issued \cup {r.id}
    /\ UNCHANGED << scan, appVars, call >>

\* add_node under a tombstoned parent, which no caller in the repository does
AddNodeAbsentParent ==
    /\ Len(tree) < MaxNodes
    /\ \E kind \in NodeKinds, parent \in Ids(tree) \ LiveIds(tree) :
          LET r == add_node(tree, "n", kind, parent)
          IN  /\ tree' = r.tree
              /\ op' = [NoOp EXCEPT !.name = "add_node", !.id = parent,
                                    !.kind = kind, !.ret = r.id]
              /\ issued' = issued \cup {r.id}
    /\ UNCHANGED << scan, appVars, call >>

SetSize ==
    /\ \E id \in LiveIds(tree), size \in 0 .. MaxSize :
          /\ tree' = set_size(tree, id, size)
          /\ op' = [NoOp EXCEPT !.name = "set_size", !.id = id, !.size = size]
    /\ UNCHANGED << issued, scan, appVars, call >>

\* remove_node with any id: the root, a live node, a tombstone, one past the arena
RemoveNode ==
    /\ \E id \in 0 .. Len(tree) :
          LET r == remove_node(tree, id)
          IN  /\ tree' = r.tree
              /\ op' = [NoOp EXCEPT !.name = "remove_node", !.id = id, !.ret = r.ret]
    /\ UNCHANGED << issued, scan, appVars, call >>

AggregateSizes ==
    /\ tree' = aggregate_sizes(tree)
    /\ op' = [NoOp EXCEPT !.name = "aggregate_sizes"]
    /\ UNCHANGED << issued, scan, appVars, call >>

SortBySize ==
    /\ tree' = sort_by_size(tree)
    /\ op' = [NoOp EXCEPT !.name = "sort_by_size"]
    /\ UNCHANGED << issued, scan, appVars, call >>

TreeNext ==
    \/ AddNode
    \/ SetSize
    \/ RemoveNode
    \/ AggregateSizes
    \/ SortBySize

SpecTree == TreeInit /\ [][TreeNext]_vars

TreeNextAny ==
    \/ AddNode
    \/ AddNodeAbsentParent
    \/ SetSize
    \/ RemoveNode
    \/ AggregateSizes
    \/ SortBySize

SpecTreeAny == TreeInit /\ [][TreeNextAny]_vars

\* ---------------------------------------------- vocabulary of the tree claims
\* the live nodes on the parent chain of id, the parent first
RECURSIVE Ancestors(_, _)
Ancestors(t, id) ==
    IF ~IsLive(t, id) THEN {}
    ELSE LET p == get(t, id).parent
         IN  IF p = NoParent \/ ~IsLive(t, p) THEN {} ELSE {p} \cup Ancestors(t, p)

Descendants(t, id) == {n \in LiveIds(t) : id \in Ancestors(t, n)}

\* the sum of field f over the set S of live ids
RECURSIVE SumOver(_, _, _)
SumOver(t, S, f) ==
    IF S = {} THEN 0
    ELSE LET x == CHOOSE y \in S : TRUE
         IN  get(t, x)[f] + SumOver(t, S \ {x}, f)

LiveChildren(t, id) == {c \in SeqToSet(get(t, id).children) : IsLive(t, c)}

Max(a, b) == IF a >= b THEN a ELSE b

\* how often x occurs in the sequence s
Occurrences(s, x) == Cardinality({i \in 1 .. Len(s) : s[i] = x})

\* the place of x in the sequence s, which holds x once
IndexOf(s, x) == CHOOSE i \in 1 .. Len(s) : s[i] = x

\* the last step called remove_node on a live node that is not the root
RemovedLive == op'.name = "remove_node" /\ op'.id # ROOT /\ IsLive(tree, op'.id)

\* C1: after remove_node(id) on a live non-root id, id and every former
\* descendant of id are tombstones, id is gone from its former parent's children,
\* and the call returned the size id had before the call.
C1_RemoveTombstonesSubtree ==
    [][RemovedLive =>
        LET id == op'.id
            p == get(tree, id).parent
        IN  /\ \A n \in {id} \cup Descendants(tree, id) : ~IsLive(tree', n)
            /\ IsLive(tree, p) =>
                  /\ IsLive(tree', p)
                  /\ id \notin SeqToSet(get(tree', p).children)
            /\ op'.ret = get(tree, id).size]_vars

\* a removal that took a node with a descendant, and freed a size above zero
C1_Witness ==
    /\ op.name = "remove_node"
    /\ op.ret > 0
    /\ Cardinality(Ids(tree) \ LiveIds(tree)) >= 2
    /\ get(tree, ROOT).children = <<>>

\* C2: remove_node(id) on a live non-root id of size s and file_count f sets
\* every ancestor a of id to max(a.size - s, 0) and max(a.file_count - f, 0) and
\* leaves size and file_count of every other surviving node as they were.
C2_RemovePropagates ==
    [][RemovedLive =>
        LET id == op'.id
            s == get(tree, id).size
            f == get(tree, id).file_count
            gone == {id} \cup Descendants(tree, id)
        IN  \A a \in LiveIds(tree) \ gone :
                /\ IsLive(tree', a)
                /\ IF a \in Ancestors(tree, id)
                   THEN /\ get(tree', a).size = Max(get(tree, a).size - s, 0)
                        /\ get(tree', a).file_count
                              = Max(get(tree, a).file_count - f, 0)
                   ELSE /\ get(tree', a).size = get(tree, a).size
                        /\ get(tree', a).file_count = get(tree, a).file_count]_vars

\* a removal of a node of size and file_count above zero below a directory
\* below the root: two ancestors were decremented, the directory down to a
\* file_count that is still above zero
C2_Witness ==
    /\ op.name = "remove_node"
    /\ op.ret > 0
    /\ op.id = 2
    /\ IsLive(tree, 1)
    /\ get(tree, 1).parent = ROOT
    /\ get(tree, 1).children = <<>>
    /\ get(tree, 1).file_count > 0
    /\ get(tree, ROOT).file_count = 0

\* C3: remove_node on the root, on a tombstone or on an id beyond the arena
\* returns 0 and leaves the tree as it was; the root slot is live in every state.
C3_RemoveAbsentIsNoOp ==
    [][/\ (op'.name = "remove_node" /\ (op'.id = ROOT \/ ~IsLive(tree, op'.id)))
            => (op'.ret = 0 /\ tree' = tree)
       /\ IsLive(tree', ROOT)]_vars

\* remove_node was called on the root of a tree that holds other nodes and sizes
C3_Witness ==
    /\ op.name = "remove_node"
    /\ op.id = ROOT
    /\ get(tree, ROOT).size > 0
    /\ live_count(tree) >= 2
    /\ Cardinality(Ids(tree) \ LiveIds(tree)) >= 1

\* C5: after aggregate_sizes every live directory's size and file_count are the
\* sums over its live children, and no other node's size or file_count changed.
C5_AggregateSums ==
    [][op'.name = "aggregate_sizes" =>
        /\ LiveIds(tree') = LiveIds(tree)
        /\ \A d \in LiveIds(tree') :
              IF get(tree', d).kind = "Directory"
              THEN /\ get(tree', d).size
                        = SumOver(tree', LiveChildren(tree', d), "size")
                   /\ get(tree', d).file_count
                        = SumOver(tree', LiveChildren(tree', d), "file_count")
              ELSE /\ get(tree', d).size = get(tree, d).size
                   /\ get(tree', d).file_count = get(tree, d).file_count]_vars

\* an aggregation through two levels of directories, after a removal
C5_Witness ==
    /\ op.name = "aggregate_sizes"
    /\ get(tree, ROOT).size > 0
    /\ get(tree, ROOT).file_count > 0
    /\ \E d \in LiveIds(tree) \ {ROOT} :
          /\ get(tree, d).kind = "Directory"
          /\ get(tree, d).children # <<>>
          /\ get(tree, d).size = get(tree, ROOT).size

NonIncreasing(t, cs) ==
    \A i \in 1 .. Len(cs) - 1 : SnapshotSize(t, cs[i]) >= SnapshotSize(t, cs[i + 1])

IsPermutation(a, b) ==
    /\ Len(a) = Len(b)
    /\ \A x \in SeqToSet(a) \cup SeqToSet(b) : Occurrences(a, x) = Occurrences(b, x)

\* all that sort_by_size leaves alone: slots, sizes, counts, parents, kinds
SameButChildren(t, u) ==
    /\ Len(t) = Len(u)
    /\ \A i \in 1 .. Len(t) : [u[i] EXCEPT !.children = t[i].children] = t[i]

\* C6, as stated: after sort_by_size every live node's children are
\* non-increasing in size, children of equal size stand in insertion order (the
\* order of their NodeIds), and each children sequence is a permutation of what
\* it was, with nothing else changed.
C6_SortTiesInInsertionOrder ==
    [][op'.name = "sort_by_size" =>
        /\ SameButChildren(tree, tree')
        /\ \A n \in LiveIds(tree') :
              LET cs == get(tree', n).children
              IN  /\ NonIncreasing(tree', cs)
                  /\ IsPermutation(cs, get(tree, n).children)
                  /\ \A i, j \in 1 .. Len(cs) :
                        (i < j /\ SnapshotSize(tree', cs[i]) = SnapshotSize(tree', cs[j]))
                            => cs[i] < cs[j]]_vars

\* C6, amended: as above, but children of equal size keep the relative order
\* they had before the call.
C6_SortStable ==
    [][op'.name = "sort_by_size" =>
        /\ SameButChildren(tree, tree')
        /\ \A n \in LiveIds(tree') :
              LET cs == get(tree', n).children
                  before == get(tree, n).children
              IN  /\ NonIncreasing(tree', cs)
                  /\ IsPermutation(cs, before)
                  /\ \A i, j \in 1 .. Len(cs) :
                        (i < j /\ SnapshotSize(tree', cs[i]) = SnapshotSize(tree', cs[j]))
                            => IndexOf(before, cs[i]) < IndexOf(before, cs[j])]_vars

\* a sort that left two children of equal size with the later NodeId first
C6_Witness ==
    /\ op.name = "sort_by_size"
    /\ get(tree, ROOT).children = << 2, 1 >>
    /\ IsLive(tree, 1) /\ IsLive(tree, 2)
    /\ get(tree, 1).size = get(tree, 2).size
    /\ get(tree, 1).size > 0

\* C7: every add_node returns an id above every id returned before and never 0,
\* len() never decreases, and a tombstoned slot never becomes live again.
C7_NodeIdsNeverReused ==
    [][/\ op'.name = "add_node" =>
            /\ op'.ret # ROOT
            /\ \A i \in issued : op'.ret > i
            /\ IsLive(tree', op'.ret)
            /\ ~IsLive(tree, op'.ret)
       /\ len(tree') >= len(tree)
       /\ \A i \in Ids(tree) : ~IsLive(tree, i) => ~IsLive(tree', i)]_vars

\* an add_node called while an earlier NodeId is a tombstone
C7_Witness ==
    /\ op.name = "add_node"
    /\ op.ret = 2
    /\ ~IsLive(tree, 1)
    /\ issued = {1, 2}

\* C8: every live non-root node has a live parent, stands exactly once in that
\* parent's children and in no other children sequence, every id in a live
\* node's children is live, and depth(child) = depth(parent) + 1.
C8_ParentChildAgree ==
    /\ \A n \in LiveIds(tree) \ {ROOT} :
          LET p == get(tree, n).parent
          IN  /\ IsLive(tree, p)
              /\ Occurrences(get(tree, p).children, n) = 1
              /\ \A q \in LiveIds(tree) \ {p} :
                    Occurrences(get(tree, q).children, n) = 0
              /\ get(tree, n).depth = get(tree, p).depth + 1
    /\ \A n \in LiveIds(tree) :
          \A c \in SeqToSet(get(tree, n).children) : IsLive(tree, c)

\* a tree in which a removal has left a tombstone beside a live node
C8_Witness ==
    /\ ~IsLive(tree, 1)
    /\ IsLive(tree, 2)
    /\ get(tree, ROOT).children = << 2 >>

\* ------------------------------------------------- scanner/walker.rs, scan_sync
(***************************************************************************)
(* One run of scan_sync.  scan.pc is the place of the scan thread, scan.hb  *)
(* the place of the heartbeat thread, scan.msgs what has been sent on the   *)
(* channel, in order.  A path is a number: 0 is root_path and k is the path *)
(* of the k-th entry the walker yields.  The canceller (main.rs, on quit)   *)
(* may set the token at any moment.                                         *)
(***************************************************************************)
NoProgress == [files |-> 0, dirs |-> 0, bytes |-> 0, errors |-> 0]

Msg(type) == [type |-> type, progress |-> NoProgress]

\* SharedProgress::to_scan_progress
to_scan_progress(s) ==
    [files |-> s.files, dirs |-> s.dirs, bytes |-> s.bytes, errors |-> s.errors]

ProgressMsg(s) == [type |-> "Progress", progress |-> to_scan_progress(s)]

send(s, m) == [s EXCEPT !.msgs = Append(@, m)]

ScanInit ==
    /\ TreeIdle
    /\ AppIdle
    /\ CallIdle
    /\ scan = [pc |-> "spawn", hb |-> "unborn", done |-> FALSE, cancelled |-> FALSE,
               msgs |-> <<>>, tree |-> DiskTree_new("root"),
               path_to_id |-> {<< 0, ROOT >>}, yielded |-> 0,
               files |-> 0, dirs |-> 0, bytes |-> 0, errors |-> 0,
               beats |-> 0, seen |-> <<>>]

\* what the walker can yield: an error, the root itself, or an entry with
\* its metadata outcome, device, file type, parent path and disk usage
WalkerEntries(s) ==
    [type : {"walker_err", "root", "meta_err", "other_dev"},
     kind : {"File"}, parent : {0}, size : {0}]
    \cup
    [type : {"entry"}, kind : NodeKinds, parent : 0 .. s.yielded, size : 0 .. MaxSize]

PathKnown(s, path) == \E pair \in s.path_to_id : pair[1] = path

PathId(s, path) == (CHOOSE pair \in s.path_to_id : pair[1] = path)[2]

\* the loop body as it would be if every node added went into the path map
ProcessEntryMapsEveryNode(s, entry) ==
    LET path == s.yielded + 1
        t == [s EXCEPT !.yielded = path]
    IN  IF entry.type \in {"walker_err", "meta_err"}
            THEN [t EXCEPT !.errors = @ + 1]
        ELSE IF entry.type \in {"root", "other_dev"}
            THEN t
        ELSE IF ~PathKnown(s, entry.parent)
            THEN t
        ELSE LET added == add_node(s.tree, "n", entry.kind, PathId(s, entry.parent))
                 isdir == entry.kind = "Directory"
             IN  [t EXCEPT !.tree = set_size(added.tree, added.id, entry.size),
                           !.path_to_id = @ \cup {<< path, added.id >>},
                           !.dirs = IF isdir THEN @ + 1 ELSE @,
                           !.files = IF isdir THEN @ ELSE @ + 1,
                           !.bytes = @ + entry.size]

\* the loop body as it would be if an entry's error ended the walk
ProcessEntryErrorEndsWalk(s, entry) ==
    IF entry.type \in {"walker_err", "meta_err"}
        THEN [s EXCEPT !.yielded = @ + 1, !.errors = @ + 1, !.done = TRUE,
                       !.pc = "join_done"]
        ELSE [s EXCEPT !.yielded = @ + 1]

\* the body of the walk loop below the cancellation check, for one entry
ProcessEntry(s, entry) ==
    LET path == s.yielded + 1
        t == [s EXCEPT !.yielded = path]
    IN  IF entry.type \in {"walker_err", "meta_err"}
            THEN [t EXCEPT !.errors = @ + 1]
        ELSE IF entry.type \in {"root", "other_dev"}
            THEN t
        ELSE IF ~PathKnown(s, entry.parent)
            THEN t
        ELSE LET added == add_node(s.tree, "n", entry.kind, PathId(s, entry.parent))
                 isdir == entry.kind = "Directory"
             IN  [t EXCEPT !.tree = set_size(added.tree, added.id, entry.size),
                           !.path_to_id = IF isdir THEN @ \cup {<< path, added.id >>}
                                                   ELSE @,
                           !.dirs = IF isdir THEN @ + 1 ELSE @,
                           !.files = IF isdir THEN @ ELSE @ + 1,
                           !.bytes = @ + entry.size]

\* the loop sees the token set: done is stored, the heartbeat is awaited next
ObserveCancelled(s) ==
    [s EXCEPT !.done = TRUE, !.pc = "join_cancelled", !.seen = s.tree]

\* the cancellation path as it would be without its `return tree`: the loop goes on
ContinueCancelled(s) == [send(s, Msg("Cancelled")) EXCEPT !.pc = "walk"]

\* the cancellation path as it would be if it aggregated and sorted like the
\* completion path
ReturnCancelledAggregated(s) ==
    [send(s, Msg("Cancelled")) EXCEPT !.pc = "returned",
                                      !.tree = sort_by_size(aggregate_sizes(@))]

\* after the join on the cancellation path: Cancelled is sent, the tree returned
ReturnCancelled(s) == [send(s, Msg("Cancelled")) EXCEPT !.pc = "returned"]

\* the heartbeat thread is spawned
SpawnHeartbeat ==
    /\ scan.pc = "spawn"
    /\ scan' = [scan EXCEPT !.pc = "started", !.hb = "check"]
    /\ UNCHANGED << treeVars, appVars, call >>

SendStarted ==
    /\ scan.pc = "started"
    /\ scan' = [send(scan, Msg("StartedDirectory")) EXCEPT !.pc = "walk"]
    /\ UNCHANGED << treeVars, appVars, call >>

\* one turn of `for entry_result in walker`
WalkEntry ==
    /\ scan.pc = "walk"
    /\ scan.yielded < MaxEntries
    /\ IF scan.cancelled
       THEN scan' = ObserveCancelled(scan)
       ELSE \E entry \in WalkerEntries(scan) : scan' = ProcessEntry(scan, entry)
    /\ UNCHANGED << treeVars, appVars, call >>

\* the walker is exhausted: done is stored
WalkEnds ==
    /\ scan.pc = "walk"
    /\ scan' = [scan EXCEPT !.done = TRUE, !.pc = "join_done"]
    /\ UNCHANGED << treeVars, appVars, call >>

\* heartbeat_handle.join() returns once the heartbeat thread has ended
JoinCancelled ==
    /\ scan.pc = "join_cancelled"
    /\ scan.hb = "exited"
    /\ scan' = ReturnCancelled(scan)
    /\ UNCHANGED << treeVars, appVars, call >>

\* the completion path as it would be without heartbeat_handle.join()
JoinDoneWithoutJoin ==
    /\ scan.pc = "join_done"
    /\ scan' = [send(scan, Msg("Finalizing")) EXCEPT !.pc = "finalizing"]
    /\ UNCHANGED << treeVars, appVars, call >>

JoinDone ==
    /\ scan.pc = "join_done"
    /\ scan.hb = "exited"
    /\ scan' = [send(scan, Msg("Finalizing")) EXCEPT !.pc = "finalizing"]
    /\ UNCHANGED << treeVars, appVars, call >>

Finalize ==
    /\ scan.pc = "finalizing"
    /\ scan' = [scan EXCEPT !.tree = sort_by_size(aggregate_sizes(@)),
                            !.pc = "completing"]
    /\ UNCHANGED << treeVars, appVars, call >>

Complete ==
    /\ scan.pc = "completing"
    /\ scan' = [send(send(scan, ProgressMsg(scan)), Msg("Completed"))
                    EXCEPT !.pc = "returned"]
    /\ UNCHANGED << treeVars, appVars, call >>

\* the heartbeat's while condition (the thread runs its loop body at most
\* MaxBeats times: beyond that it is not scheduled until it can leave the loop)
HeartbeatCheck ==
    /\ scan.hb = "check"
    /\ scan.done \/ scan.cancelled \/ scan.beats < MaxBeats
    /\ scan' = [scan EXCEPT !.hb = IF ~scan.done /\ ~scan.cancelled
                                   THEN "sleep" ELSE "exited"]
    /\ UNCHANGED << treeVars, appVars, call >>

\* the heartbeat wakes from its sleep and sends a snapshot
HeartbeatSend ==
    /\ scan.hb = "sleep"
    /\ scan' = [send(scan, ProgressMsg(scan)) EXCEPT !.hb = "check", !.beats = @ + 1]
    /\ UNCHANGED << treeVars, appVars, call >>

\* CancellationToken::cancel, called by the app when it quits
Cancel ==
    /\ ~scan.cancelled
    /\ scan.pc # "returned"
    /\ scan' = [scan EXCEPT !.cancelled = TRUE]
    /\ UNCHANGED << treeVars, appVars, call >>

ScanNext ==
    \/ SpawnHeartbeat
    \/ SendStarted
    \/ WalkEntry
    \/ WalkEnds
    \/ JoinCancelled
    \/ JoinDone
    \/ Finalize
    \/ Complete
    \/ HeartbeatCheck
    \/ HeartbeatSend
    \/ Cancel

SpecScan == ScanInit /\ [][ScanNext]_vars

\* the heartbeat thread is scheduled: it wakes from its sleep and it evaluates
\* its loop condition
SpecScanFair ==
    /\ ScanInit
    /\ [][ScanNext]_vars
    /\ WF_vars(HeartbeatCheck)
    /\ WF_vars(HeartbeatSend)

\* ------------------------------------------------------ the scanner claims
MsgCount(types) ==
    Cardinality({i \in 1 .. Len(scan.msgs) : scan.msgs[i].type \in types})

Sent(type) == MsgCount({type}) > 0

FirstIndex(type) ==
    CHOOSE i \in 1 .. Len(scan.msgs) :
        /\ scan.msgs[i].type = type
        /\ \A j \in 1 .. i - 1 : scan.msgs[j].type # type

TerminalTypes == {"Completed", "Cancelled"}

\* C9: the stream of a scan holds at most one terminal message, Completed or
\* Cancelled, exactly one once scan_sync has returned, and nothing after it;
\* Completed has exactly one Finalizing before it, a cancelled run has none.
C9_OneTerminalMessage ==
    /\ MsgCount(TerminalTypes) <= 1
    /\ (scan.pc = "returned") <=> (MsgCount(TerminalTypes) = 1)
    /\ \A i \in 1 .. Len(scan.msgs) :
          scan.msgs[i].type \in TerminalTypes => i = Len(scan.msgs)
    /\ Sent("Completed") =>
          /\ MsgCount({"Finalizing"}) = 1
          /\ FirstIndex("Finalizing") < FirstIndex("Completed")
    /\ Sent("Cancelled") => MsgCount({"Finalizing"}) = 0

\* a run that ended with Completed although the token was set before it ended,
\* with heartbeat messages in the stream
C9_Witness ==
    /\ scan.pc = "returned"
    /\ scan.cancelled
    /\ Sent("Completed")
    /\ scan.beats >= 1
    /\ scan.errors >= 1

\* C10: once the walk loop has seen the token set, done is stored and no entry
\* is processed any more; Cancelled is sent only after the heartbeat has ended,
\* it is the last message, no Finalizing or Completed is in the stream, and the
\* tree returned is the tree as it was when the token was seen, not aggregated
\* and not sorted: the root's size is still 0.
C10_CancelledReturnsPartialTree ==
    /\ scan.pc = "join_cancelled" =>
          /\ scan.done /\ scan.cancelled
          /\ ~Sent("Cancelled")
          /\ scan.tree = scan.seen
    /\ Sent("Cancelled") =>
          /\ scan.done
          /\ scan.hb = "exited"
          /\ scan.pc = "returned"
          /\ scan.msgs[Len(scan.msgs)].type = "Cancelled"
          /\ ~Sent("Finalizing") /\ ~Sent("Completed")
          /\ scan.tree = scan.seen
          /\ get(scan.tree, ROOT).size = 0
          /\ get(scan.tree, ROOT).file_count = 0

\* a cancelled run that returned a tree with a file of size above zero in it,
\* after the heartbeat had sent a snapshot
C10_Witness ==
    /\ scan.pc = "returned"
    /\ Sent("Cancelled")
    /\ scan.beats >= 1
    /\ \E n \in LiveIds(scan.tree) :
          get(scan.tree, n).kind = "File" /\ get(scan.tree, n).size > 0


\* the places of the scan thread behind a join of the heartbeat
Joined == {"finalizing", "completing", "returned"}

\* C11: the heartbeat thread ends once done is stored or the token is set; the
\* scan thread is past its join, on either exit path, only when the heartbeat
\* has ended, so every terminal message is sent after the heartbeat's end and
\* no step of the heartbeat sends a Progress message after Completed or
\* Cancelled.
C11_HeartbeatJoinedBeforeTerminal ==
    /\ [](scan.pc \in Joined => scan.hb = "exited")
    /\ [](MsgCount(TerminalTypes) > 0 => scan.hb = "exited")
    /\ [][scan'.beats # scan.beats =>
            /\ MsgCount(TerminalTypes) = 0
            /\ scan.pc \notin Joined]_vars
    /\ [][scan.hb = "exited" => scan'.hb = "exited" /\ scan'.beats = scan.beats]_vars
    /\ (scan.hb # "unborn" /\ (scan.done \/ scan.cancelled)) ~> (scan.hb = "exited")

\* both exit paths were taken behind a heartbeat that had sent snapshots: here
\* the cancelled one, joined while the heartbeat was still asleep when the
\* token was seen
C11_Witness ==
    /\ scan.pc = "returned"
    /\ Sent("Cancelled")
    /\ scan.hb = "exited"
    /\ scan.beats >= 2

\* every live directory of t carries the sums over its live children
IsAggregated(t) ==
    \A d \in LiveIds(t) :
        get(t, d).kind = "Directory" =>
            /\ get(t, d).size = SumOver(t, LiveChildren(t, d), "size")
            /\ get(t, d).file_count = SumOver(t, LiveChildren(t, d), "file_count")

\* every live node of t has its children in non-increasing order of size
IsSorted(t) == \A n \in LiveIds(t) : NonIncreasing(t, get(t, n).children)

\* C12: an entry that fails (walker error or metadata failure) is skipped: the
\* step adds one to errors and changes nothing else but the walker's position:
\* no node, no path, no count, no message, and the loop goes on.  A scan that
\* has returned without Cancelled has sent Finalizing once and Completed last,
\* behind a snapshot that counts every error, and its tree is aggregated and
\* sorted.
C12_EntryErrorsAbsorbed ==
    /\ [][scan'.errors # scan.errors =>
            /\ scan' = [scan EXCEPT !.errors = @ + 1, !.yielded = @ + 1]
            /\ scan'.pc = "walk"]_vars
    /\ [](scan.pc = "returned" /\ ~Sent("Cancelled") =>
            /\ MsgCount({"Finalizing"}) = 1
            /\ scan.msgs[Len(scan.msgs)].type = "Completed"
            /\ scan.msgs[Len(scan.msgs) - 1].progress.errors = scan.errors
            /\ IsAggregated(scan.tree)
            /\ IsSorted(scan.tree))

\* a failed entry, then an entry that was added, then Completed
C12_Witness ==
    /\ scan.pc = "returned"
    /\ Sent("Completed")
    /\ ~scan.cancelled
    /\ scan.errors = 1
    /\ scan.yielded = 2
    /\ live_count(scan.tree) = 2
    /\ get(scan.tree, ROOT).size > 0
\* the NodeIds of the entries below the root of the arena t
NonRootIds(t) == {i \in 0 .. Len(t) - 1 : t[i + 1].parent # NoParent}

\* C28: in the tree of a scan, at every moment and in the tree returned, every
\* node but the root has a NodeId above its parent's, and its parent is a
\* directory of the tree; the path map holds only directories of the tree; a
\* step that adds a node adds it below a NodeId the map held before the step;
\* and an entry whose parent path is not in the map adds no node and no path.
C28_ParentBeforeChild ==
    /\ [](\A i \in NonRootIds(scan.tree) :
            /\ scan.tree[i + 1].parent \in 0 .. i - 1
            /\ scan.tree[scan.tree[i + 1].parent + 1].kind = "Directory")
    /\ [](\A pair \in scan.path_to_id :
            /\ pair[2] \in 0 .. Len(scan.tree) - 1
            /\ scan.tree[pair[2] + 1].kind = "Directory")
    /\ [][Len(scan'.tree) # Len(scan.tree) =>
            /\ Len(scan'.tree) = Len(scan.tree) + 1
            /\ \E pair \in scan.path_to_id :
                  scan'.tree[Len(scan'.tree)].parent = pair[2]]_vars
    /\ [](\A entry \in WalkerEntries(scan) :
            (entry.type = "entry" /\ ~PathKnown(scan, entry.parent)) =>
                /\ ProcessEntry(scan, entry).tree = scan.tree
                /\ ProcessEntry(scan, entry).path_to_id = scan.path_to_id)

\* a completed scan whose second entry was added below the directory that its
\* first entry added
C28_Witness ==
    /\ scan.pc = "returned"
    /\ Sent("Completed")
    /\ Len(scan.tree) = 3
    /\ scan.tree[2].kind = "Directory"
    /\ scan.tree[3].parent = 1

\* the types of the messages of the stream, in order
MsgTypes == [i \in 1 .. Len(scan.msgs) |-> scan.msgs[i].type]

\* the last n elements of the sequence s, or all of s if it is shorter
LastOf(s, n) == SubSeq(s, IF Len(s) > n THEN Len(s) - n + 1 ELSE 1, Len(s))

\* C29: a scan that returned without Cancelled ends its stream with Finalizing,
\* Progress, Completed; nothing but StartedDirectory and heartbeat Progress
\* messages comes before that tail; the Progress of the tail carries the
\* counters as they are at the end, which count every node of the tree; and no
\* step of the heartbeat sends a Progress once Finalizing is in the stream,
\* which is sent only after the heartbeat has ended.
C29_FinalizingProgressCompleted ==
    /\ [](scan.pc = "returned" /\ ~Sent("Cancelled") =>
            LET n == Len(scan.msgs)
            IN  /\ LastOf(MsgTypes, 3) = << "Finalizing", "Progress", "Completed" >>
                /\ \A i \in 1 .. n - 3 :
                      scan.msgs[i].type \in {"StartedDirectory", "Progress"}
                /\ scan.msgs[n - 1].progress = to_scan_progress(scan)
                /\ scan.msgs[n - 1].progress.files + scan.msgs[n - 1].progress.dirs
                      = Len(scan.tree) - 1
                /\ MsgCount({"Progress"}) = scan.beats + 1)
    /\ [](Sent("Finalizing") => scan.hb = "exited")
    /\ [][scan'.beats # scan.beats => ~Sent("Finalizing")]_vars
    /\ [][Sent("Finalizing") =>
            /\ Len(scan'.msgs) <= Len(scan.msgs) + 2
            /\ \A i \in 1 .. Len(scan.msgs) : scan'.msgs[i] = scan.msgs[i]
            /\ \A i \in Len(scan.msgs) + 1 .. Len(scan'.msgs) :
                  scan'.msgs[i].type \in {"Progress", "Completed"}]_vars

\* a completed scan of two entries, never cancelled, whose heartbeat sent two
\* snapshots before the walk was over
C29_Witness ==
    /\ scan.pc = "returned"
    /\ ~scan.cancelled
    /\ scan.beats = 2
    /\ Len(scan.tree) = 3
    /\ LastOf(MsgTypes, 3) = << "Finalizing", "Progress", "Completed" >>
    /\ scan.msgs[Len(scan.msgs) - 1].progress.bytes > 0
    /\ scan.msgs[Len(scan.msgs) - 1].progress # scan.msgs[Len(scan.msgs) - 3].progress

\* C30: the first message of the stream of a scan is StartedDirectory, so no
\* Progress message of the heartbeat comes before it, whichever way the scan
\* thread and the heartbeat thread are scheduled.
C30_StartedDirectoryFirst ==
    /\ Len(scan.msgs) > 0 => scan.msgs[1].type = "StartedDirectory"
    /\ Sent("Progress") => Sent("StartedDirectory")

\* --- removal on the trees of a scan ---

\* the scanner adds nodes below directories only
OnlyDirectoriesHaveChildren(t) ==
    \A n \in LiveIds(t) : get(t, n).children # << >> => get(t, n).kind = "Directory"

\* remove_node(a) and then remove_node(b): the tree left and the two returned
\* values added up
RemoveBoth(t, a, b) ==
    [tree |-> remove_node(remove_node(t, a).tree, b).tree,
     sum |-> remove_node(t, a).ret + remove_node(remove_node(t, a).tree, b).ret]

RemovedFromAggregated ==
    /\ op'.name = "remove_node"
    /\ IsAggregated(tree)
    /\ OnlyDirectoriesHaveChildren(tree)

NoNode == NoParent

\* Option<DiskTree>::None; a DiskTree always holds its root, so it is never empty
NoTree == << >>

\* the directory names of the artifact table
ArtifactNames ==
    {"target", "DerivedData", "Build", "node_modules", "build", "dist", ".gradle",
     "__pycache__", ".tox", ".venv", "venv", "Pods", ".next", ".nuxt", "vendor",
     ".cache"}

classify_artifact(name) == name \in ArtifactNames

\* Vec::get with a usize index
VecGet(s, idx) == IF idx + 1 \in 1 .. Len(s) THEN s[idx + 1] ELSE NoNode

\* DiskTree::visible_nodes: the node itself, then the subtrees of its children
\* when it is live and expanded
\* collect_visible as it would be if it went into collapsed directories too
collect_visible_unfolding(t, id) == << id >> \o collect_descendants(t, id)

RECURSIVE collect_visible(_, _), VisibleOver(_, _)
collect_visible(t, id) ==
    << id >> \o (IF IsLive(t, id) /\ get(t, id).is_expanded
                     THEN VisibleOver(t, get(t, id).children)
                     ELSE << >>)

VisibleOver(t, cs) ==
    IF cs = << >> THEN << >>
    ELSE collect_visible(t, Head(cs)) \o VisibleOver(t, Tail(cs))

visible_nodes(t, root) == collect_visible(t, root)

toggle_expanded(t, id) ==
    IF IsLive(t, id) THEN [t EXCEPT ![id + 1].is_expanded = ~@] ELSE t

\* a view entry keeps the node's id and the size it had at the rebuild
ViewEntry(t, id) == [node_id |-> id, size |-> get(t, id).size]

\* Vec::sort_by(|a, b| b.size.cmp(&a.size)): stable, descending
RECURSIVE InsertEntry(_, _)
InsertEntry(s, e) ==
    IF s = << >> THEN << e >>
    ELSE IF Head(s).size >= e.size THEN << Head(s) >> \o InsertEntry(Tail(s), e)
    ELSE << e >> \o s

\* the entries of the live nodes in `keep`, collected in id order, then sorted
RECURSIVE CollectEntries(_, _, _, _)
CollectEntries(t, keep, i, acc) ==
    IF i >= len(t) THEN acc
    ELSE CollectEntries(t, keep, i + 1,
             IF i \in keep THEN InsertEntry(acc, ViewEntry(t, i)) ELSE acc)

rebuild_large_files(t) ==
    CollectEntries(t, {i \in LiveIds(t) : get(t, i).kind = "File"}, 0, << >>)

\* the walk up the parents as it would be if it stopped at the parent
HasArtifactParent(t, id) ==
    LET pid == get(t, id).parent
    IN  IF pid = NoParent \/ ~IsLive(t, pid) THEN FALSE
        ELSE classify_artifact(get(t, pid).name)

\* does a strict ancestor of id carry an artifact name
RECURSIVE HasArtifactAncestor(_, _)
HasArtifactAncestor(t, id) ==
    LET pid == get(t, id).parent
    IN  IF pid = NoParent \/ ~IsLive(t, pid) THEN FALSE
        ELSE classify_artifact(get(t, pid).name) \/ HasArtifactAncestor(t, pid)

rebuild_build_artifacts(t) ==
    CollectEntries(t, {i \in LiveIds(t) : /\ is_directory(get(t, i).kind)
                                          /\ classify_artifact(get(t, i).name)
                                          /\ ~HasArtifactAncestor(t, i)},
                   0, << >>)

\* ComputedViews::rebuild
rebuild(t) ==
    [large_files |-> rebuild_large_files(t),
     build_artifacts |-> rebuild_build_artifacts(t),
     dirty |-> FALSE]


\* Option<String>::None of error_message
NoError == [text |-> "", count |-> 0, path |-> NoNode]

\* Some(message): the format string, and what it is filled with
ErrorMessage(text, count, path) == [text |-> text, count |-> count, path |-> path]

\* Option<Vec<..>>::None of pending_multi_delete
NoPendingMulti == [some |-> FALSE, items |-> << >>]

\* Option<MultiDeleteProgress>::None
NoMultiDelete ==
    [some |-> FALSE, total |-> 0, completed |-> 0, bytes_freed |-> 0,
     failures |-> << >>]

ViewState_default == [selected_index |-> 0, scroll_offset |-> 0]

\* AppState::new
AppState_new ==
    [mode |-> "Scanning",
     tree |-> NoTree,
     selected_index |-> 0,
     view_root |-> ROOT,
     history |-> << >>,
     scroll_offset |-> 0,
     visible_height |-> VisibleHeight,
     error_message |-> NoError,
     pending_delete |-> NoNode,
     session_stats |-> [bytes_freed |-> 0, items_deleted |-> 0],
     tree_modified |-> FALSE,
     delete_receiver |-> FALSE,
     view_mode |-> "Tree",
     large_files_state |-> ViewState_default,
     build_artifacts_state |-> ViewState_default,
     computed_views |-> [large_files |-> << >>, build_artifacts |-> << >>,
                         dirty |-> TRUE],
     selected_nodes |-> {},
     selecting_mode |-> FALSE,
     pending_multi_delete |-> NoPendingMulti,
     multi_delete_progress |-> NoMultiDelete]

set_tree(a, t) ==
    [a EXCEPT !.computed_views = rebuild(t),
              !.tree = t,
              !.mode = "Browsing",
              !.selected_index = 0,
              !.view_root = ROOT]

app_visible_nodes(a) ==
    IF a.tree = NoTree THEN << >> ELSE visible_nodes(a.tree, a.view_root)

\* the node ids of the list the active view shows
ActiveList(a) ==
    CASE a.view_mode = "Tree" -> app_visible_nodes(a)
      [] a.view_mode = "LargeFiles" ->
            [i \in 1 .. Len(a.computed_views.large_files) |->
                a.computed_views.large_files[i].node_id]
      [] a.view_mode = "BuildArtifacts" ->
            [i \in 1 .. Len(a.computed_views.build_artifacts) |->
                a.computed_views.build_artifacts[i].node_id]

current_selected_index(a) ==
    CASE a.view_mode = "Tree" -> a.selected_index
      [] a.view_mode = "LargeFiles" -> a.large_files_state.selected_index
      [] a.view_mode = "BuildArtifacts" -> a.build_artifacts_state.selected_index

current_scroll_offset(a) ==
    CASE a.view_mode = "Tree" -> a.scroll_offset
      [] a.view_mode = "LargeFiles" -> a.large_files_state.scroll_offset
      [] a.view_mode = "BuildArtifacts" -> a.build_artifacts_state.scroll_offset

node_at_index(a, idx) == VecGet(ActiveList(a), idx)

selected_node(a) == node_at_index(a, current_selected_index(a))

current_item_count(a) == Len(ActiveList(a))

\* writes through the two references active_selection_mut hands out
active_selection_set(a, sel, scroll) ==
    CASE a.view_mode = "Tree" ->
            [a EXCEPT !.selected_index = sel, !.scroll_offset = scroll]
      [] a.view_mode = "LargeFiles" ->
            [a EXCEPT !.large_files_state =
                [selected_index |-> sel, scroll_offset |-> scroll]]
      [] a.view_mode = "BuildArtifacts" ->
            [a EXCEPT !.build_artifacts_state =
                [selected_index |-> sel, scroll_offset |-> scroll]]

\* the scroll offset ensure_visible_for leaves
ensure_visible_for(selected, scroll, visible_height) ==
    IF selected < scroll THEN selected
    ELSE IF selected >= scroll + visible_height THEN selected - visible_height + 1
    ELSE scroll

move_up(a) ==
    LET sel == current_selected_index(a)
        new == IF sel > 0 THEN sel - 1 ELSE sel
    IN  active_selection_set(a, new,
            ensure_visible_for(new, current_scroll_offset(a), a.visible_height))

move_down(a) ==
    LET count == current_item_count(a)
        sel == current_selected_index(a)
        new == IF sel < SaturatingSub(count, 1) THEN sel + 1 ELSE sel
    IN  active_selection_set(a, new,
            ensure_visible_for(new, current_scroll_offset(a), a.visible_height))

page_up(a) ==
    LET new == SaturatingSub(current_selected_index(a),
                             SaturatingSub(a.visible_height, 2))
    IN  active_selection_set(a, new,
            ensure_visible_for(new, current_scroll_offset(a), a.visible_height))

page_down(a) ==
    LET last == SaturatingSub(current_item_count(a), 1)
        sum == current_selected_index(a) + SaturatingSub(a.visible_height, 2)
        new == IF sum <= last THEN sum ELSE last
    IN  active_selection_set(a, new,
            ensure_visible_for(new, current_scroll_offset(a), a.visible_height))

go_to_first(a) ==
    active_selection_set(a, 0,
        ensure_visible_for(0, current_scroll_offset(a), a.visible_height))

go_to_last(a) ==
    LET new == SaturatingSub(current_item_count(a), 1)
    IN  active_selection_set(a, new,
            ensure_visible_for(new, current_scroll_offset(a), a.visible_height))

toggle_selected(a) ==
    IF selected_node(a) # NoNode /\ a.tree # NoTree
        THEN [a EXCEPT !.tree = toggle_expanded(@, selected_node(a))]
        ELSE a

drill_down(a) ==
    LET node_id == selected_node(a)
    IN  IF /\ node_id # NoNode
           /\ a.tree # NoTree
           /\ IsLive(a.tree, node_id)
           /\ is_directory(get(a.tree, node_id).kind)
           /\ get(a.tree, node_id).children # << >>
            THEN [a EXCEPT !.history = Append(@, a.view_root),
                           !.view_root = node_id,
                           !.selected_index = 0,
                           !.scroll_offset = 0]
            ELSE a

go_back(a) ==
    IF a.history # << >>
        THEN [a EXCEPT !.view_root = a.history[Len(a.history)],
                       !.history = SubSeq(@, 1, Len(@) - 1),
                       !.selected_index = 0,
                       !.scroll_offset = 0]
        ELSE a

\* the index after the clamp of ensure_views_computed and of
\* adjust_selection_after_delete
ClampIndex(idx, count) == IF idx >= count THEN SaturatingSub(count, 1) ELSE idx

ensure_views_computed(a) ==
    IF ~a.computed_views.dirty THEN a
    ELSE LET views == IF a.tree # NoTree THEN rebuild(a.tree) ELSE a.computed_views
         IN  [a EXCEPT !.computed_views = views,
                       !.large_files_state.selected_index =
                            ClampIndex(@, Len(views.large_files)),
                       !.build_artifacts_state.selected_index =
                            ClampIndex(@, Len(views.build_artifacts))]

NextViewMode(m) ==
    CASE m = "Tree" -> "LargeFiles"
      [] m = "LargeFiles" -> "BuildArtifacts"
      [] m = "BuildArtifacts" -> "Tree"

PrevViewMode(m) ==
    CASE m = "Tree" -> "BuildArtifacts"
      [] m = "LargeFiles" -> "Tree"
      [] m = "BuildArtifacts" -> "LargeFiles"

next_view(a) ==
    ensure_views_computed([a EXCEPT !.view_mode = NextViewMode(@),
                                    !.selected_nodes = {},
                                    !.selecting_mode = FALSE])

prev_view(a) ==
    ensure_views_computed([a EXCEPT !.view_mode = PrevViewMode(@),
                                    !.selected_nodes = {},
                                    !.selecting_mode = FALSE])


\* --- selection ---

\* add_to_selection as it would be without its test for the root
add_to_selection_any(a, node_id) ==
    IF node_id # NoNode
        THEN [a EXCEPT !.selected_nodes = @ \cup {node_id}]
        ELSE a

add_to_selection(a, node_id) ==
    IF node_id # NoNode /\ node_id # ROOT
        THEN [a EXCEPT !.selected_nodes = @ \cup {node_id}]
        ELSE a

toggle_select(a) ==
    LET node_id == node_at_index(a, current_selected_index(a))
    IN  IF node_id = NoNode \/ node_id = ROOT THEN a
        ELSE IF node_id \in a.selected_nodes
            THEN [a EXCEPT !.selected_nodes = @ \ {node_id},
                           !.selecting_mode =
                                IF a.selected_nodes \ {node_id} = {} THEN FALSE ELSE @]
        ELSE [a EXCEPT !.selected_nodes = @ \cup {node_id},
                       !.selecting_mode = TRUE]

clear_selection(a) == [a EXCEPT !.selected_nodes = {}, !.selecting_mode = FALSE]

select_move_up(a) ==
    LET first == add_to_selection(a, node_at_index(a, current_selected_index(a)))
        moved == move_up(first)
    IN  add_to_selection(moved, node_at_index(moved, current_selected_index(moved)))

select_move_down(a) ==
    LET first == add_to_selection(a, node_at_index(a, current_selected_index(a)))
        moved == move_down(first)
    IN  add_to_selection(moved, node_at_index(moved, current_selected_index(moved)))

\* the loops of the range selections: add_to_selection for the rows lo ..= hi
RECURSIVE AddRows(_, _, _)
AddRows(a, lo, hi) ==
    IF lo > hi THEN a
    ELSE AddRows(add_to_selection(a, node_at_index(a, lo)), lo + 1, hi)

select_page_up(a) ==
    LET moved == page_up(a)
    IN  AddRows(moved, current_selected_index(moved), current_selected_index(a))

select_page_down(a) ==
    LET moved == page_down(a)
    IN  AddRows(moved, current_selected_index(a), current_selected_index(moved))

select_to_first(a) == AddRows(go_to_first(a), 0, current_selected_index(a))

select_to_last(a) ==
    LET moved == go_to_last(a)
    IN  AddRows(moved, current_selected_index(a), current_selected_index(moved))

\* --- delete ---

\* the walk of dedup_selected_nodes as it would be if it stopped at the parent
ParentSelected(t, selected, current) ==
    IsLive(t, current) /\ get(t, current).parent \in selected

\* the walk of dedup_selected_nodes up the parent links of a selected node
RECURSIVE AncestorSelected(_, _, _)
AncestorSelected(t, selected, current) ==
    IF ~IsLive(t, current) THEN FALSE
    ELSE LET parent == get(t, current).parent
         IN  IF parent = NoParent THEN FALSE
             ELSE parent \in selected \/ AncestorSelected(t, selected, parent)

\* dedup_selected_nodes as it would be if it returned the whole selection
selected_nodes_undeduped(a) == IF a.tree = NoTree THEN {} ELSE a.selected_nodes

\* the ids dedup_selected_nodes returns; their order is the iteration order of
\* the HashSet, which the caller supplies
dedup_selected_nodes(a) ==
    IF a.tree = NoTree THEN {}
    ELSE {id \in a.selected_nodes : ~AncestorSelected(a.tree, a.selected_nodes, id)}

\* the orders in which a HashSet may hand out the elements of S
IterationOrders(S) ==
    {f \in [1 .. Cardinality(S) -> S] :
        \A i, j \in 1 .. Cardinality(S) : i # j => f[i] # f[j]}

request_multi_delete(a, deduped) ==
    IF a.tree = NoTree \/ deduped = << >> THEN a
    ELSE LET Kept(id) == IsLive(a.tree, id) /\ id # ROOT
             ids == SelectSeq(deduped, Kept)
             items == [i \in 1 .. Len(ids) |->
                          [id |-> ids[i], size |-> get(a.tree, ids[i]).size]]
         IN  IF items = << >> THEN a
             ELSE [a EXCEPT !.pending_multi_delete = [some |-> TRUE, items |-> items],
                            !.mode = "ConfirmMultiDelete"]

\* request_delete as it would be without its guard on a delete in progress
request_delete_unguarded(a, deduped) ==
    IF a.selected_nodes # {} THEN request_multi_delete(a, deduped)
    ELSE IF /\ selected_node(a) # NoNode
            /\ a.tree # NoTree
            /\ IsLive(a.tree, selected_node(a))
        THEN [a EXCEPT !.pending_delete = selected_node(a),
                       !.mode = "ConfirmDelete"]
    ELSE a

request_delete(a, deduped) ==
    IF a.delete_receiver \/ a.multi_delete_progress.some THEN a
    ELSE IF a.selected_nodes # {} THEN request_multi_delete(a, deduped)
    ELSE IF /\ selected_node(a) # NoNode
            /\ a.tree # NoTree
            /\ IsLive(a.tree, selected_node(a))
        THEN [a EXCEPT !.pending_delete = selected_node(a),
                       !.mode = "ConfirmDelete"]
    ELSE a

\* the cursor left where it was after a delete
keep_selection_after_delete(a) == a

adjust_selection_after_delete(a) ==
    CASE a.view_mode = "Tree" ->
            LET n == Len(app_visible_nodes(a))
            IN  [a EXCEPT !.selected_index = IF n = 0 THEN 0 ELSE ClampIndex(@, n),
                          !.scroll_offset =
                              IF @ > 0 /\ @ >= n THEN SaturatingSub(n, 1) ELSE @]
      [] a.view_mode = "LargeFiles" ->
            [a EXCEPT !.large_files_state.selected_index =
                ClampIndex(@, Len(a.computed_views.large_files))]
      [] a.view_mode = "BuildArtifacts" ->
            [a EXCEPT !.build_artifacts_state.selected_index =
                ClampIndex(@, Len(a.computed_views.build_artifacts))]

\* the size confirm_delete reads before it removes the node
SizeOrZero(a, node_id) ==
    IF a.tree # NoTree /\ IsLive(a.tree, node_id) THEN get(a.tree, node_id).size ELSE 0

\* confirm_delete as it would be if it left the views' dirty flag alone
confirm_delete_views_clean(a) ==
    IF a.pending_delete = NoNode THEN a
    ELSE LET node_id == a.pending_delete
             removed == IF a.tree # NoTree
                            THEN [a EXCEPT !.tree = remove_node(@, node_id).tree,
                                           !.tree_modified = TRUE]
                            ELSE a
             adjusted == adjust_selection_after_delete(
                            [removed EXCEPT !.pending_delete = NoNode,
                                            !.selected_nodes = @ \ {node_id}])
         IN  [adjusted EXCEPT !.delete_receiver = TRUE, !.mode = "Browsing"]

\* AppState after confirm_delete; the thread it spawns is in DeleteThread
confirm_delete(a) ==
    IF a.pending_delete = NoNode THEN a
    ELSE LET node_id == a.pending_delete
             removed == IF a.tree # NoTree
                            THEN [a EXCEPT !.tree = remove_node(@, node_id).tree,
                                           !.tree_modified = TRUE,
                                           !.computed_views.dirty = TRUE]
                            ELSE a
             adjusted == adjust_selection_after_delete(
                            [removed EXCEPT !.pending_delete = NoNode,
                                            !.selected_nodes = @ \ {node_id}])
         IN  [adjusted EXCEPT !.delete_receiver = TRUE, !.mode = "Browsing"]

\* what the closure of a delete thread captures
DeleteThread(node_id, size, multi) == [id |-> node_id, size |-> size, multi |-> multi]

\* poll_delete as it would be if it dropped the error of a failed delete
poll_delete_silent(a, result) ==
    LET handled ==
            IF result.ok
                THEN [a EXCEPT !.session_stats.bytes_freed = @ + result.size,
                               !.session_stats.items_deleted = @ + 1]
                ELSE a
    IN  [handled EXCEPT !.delete_receiver = FALSE, !.mode = "Browsing"]

poll_delete(a, result) ==
    LET handled ==
            IF result.ok
                THEN [a EXCEPT !.session_stats.bytes_freed = @ + result.size,
                               !.session_stats.items_deleted = @ + 1]
                ELSE [a EXCEPT !.error_message = ErrorMessage("Delete failed: {e}", 1, NoNode)]
    IN  [handled EXCEPT !.delete_receiver = FALSE, !.mode = "Browsing"]

\* cancel_delete as it would be if it left the pending item in place
cancel_delete_keeping(a) == [a EXCEPT !.mode = "Browsing"]

cancel_delete(a) == [a EXCEPT !.pending_delete = NoNode, !.mode = "Browsing"]

\* the loop of confirm_multi_delete over the items
RECURSIVE RemoveItems(_, _)
RemoveItems(t, items) ==
    IF items = << >> THEN t
    ELSE RemoveItems(remove_node(t, Head(items).id).tree, Tail(items))

confirm_multi_delete(a) ==
    IF ~a.pending_multi_delete.some THEN a
    ELSE LET items == a.pending_multi_delete.items
             removed == IF a.tree # NoTree
                            THEN [a EXCEPT !.tree = RemoveItems(@, items),
                                           !.tree_modified = TRUE,
                                           !.computed_views.dirty = TRUE]
                            ELSE a
             adjusted == adjust_selection_after_delete(
                            [removed EXCEPT !.pending_multi_delete = NoPendingMulti,
                                            !.selected_nodes = {},
                                            !.selecting_mode = FALSE])
         IN  [adjusted EXCEPT !.multi_delete_progress =
                                  [some |-> TRUE, total |-> Len(items), completed |-> 0,
                                   bytes_freed |-> 0, failures |-> << >>],
                              !.mode = "MultiDeleting"]

\* the try_recv loop as it would be if a Failure counted as a deleted item too
RECURSIVE DrainCountingFailures(_, _)
DrainCountingFailures(a, results) ==
    IF results = << >> THEN a
    ELSE LET r == Head(results)
             counted == [a EXCEPT !.multi_delete_progress.completed = @ + 1,
                                  !.session_stats.items_deleted = @ + 1]
         IN  DrainCountingFailures(
                IF r.ok
                    THEN [counted EXCEPT !.multi_delete_progress.bytes_freed = @ + r.size,
                                         !.session_stats.bytes_freed = @ + r.size]
                    ELSE [counted EXCEPT !.multi_delete_progress.failures =
                                             Append(@, r.id)],
                Tail(results))

\* the try_recv loop as it would be if only a Success counted as completed
RECURSIVE DrainSuccesses(_, _)
DrainSuccesses(a, results) ==
    IF results = << >> THEN a
    ELSE LET r == Head(results)
         IN  DrainSuccesses(
                IF r.ok
                    THEN [a EXCEPT !.multi_delete_progress.completed = @ + 1,
                                   !.multi_delete_progress.bytes_freed = @ + r.size,
                                   !.session_stats.bytes_freed = @ + r.size,
                                   !.session_stats.items_deleted = @ + 1]
                    ELSE [a EXCEPT !.multi_delete_progress.failures =
                                       Append(@, r.id)],
                Tail(results))

\* the try_recv loop of poll_multi_delete over the results it finds
RECURSIVE DrainResults(_, _)
DrainResults(a, results) ==
    IF results = << >> THEN a
    ELSE LET r == Head(results)
             counted == [a EXCEPT !.multi_delete_progress.completed = @ + 1]
         IN  DrainResults(
                IF r.ok
                    THEN [counted EXCEPT !.multi_delete_progress.bytes_freed = @ + r.size,
                                         !.session_stats.bytes_freed = @ + r.size,
                                         !.session_stats.items_deleted = @ + 1]
                    ELSE [counted EXCEPT !.multi_delete_progress.failures =
                                             Append(@, r.id)],
                Tail(results))

poll_multi_delete(a, results) ==
    IF ~a.multi_delete_progress.some THEN a
    ELSE LET drained == DrainResults(a, results)
             progress == drained.multi_delete_progress
             failures == progress.failures
         IN  IF progress.completed >= progress.total
                 THEN [drained EXCEPT
                          !.error_message =
                              IF failures = << >> THEN @
                              ELSE IF Len(failures) = 1
                                  THEN ErrorMessage("Delete failed: {path}: {e}", 1,
                                                    failures[1])
                              ELSE ErrorMessage("{n} deletions failed (first: {e})",
                                                Len(failures), failures[1]),
                          !.multi_delete_progress = NoMultiDelete,
                          !.mode = "Browsing"]
                 ELSE drained

\* cancel_multi_delete as it would be if it cleared the selection, as the
\* confirmation does
cancel_multi_delete_clearing(a) ==
    [a EXCEPT !.pending_multi_delete = NoPendingMulti, !.mode = "Browsing",
              !.selected_nodes = {}, !.selecting_mode = FALSE]

cancel_multi_delete(a) ==
    [a EXCEPT !.pending_multi_delete = NoPendingMulti, !.mode = "Browsing"]

show_help(a) == [a EXCEPT !.mode = "Help"]

hide_help(a) == [a EXCEPT !.mode = "Browsing"]


\* --- the app with the trees a scan hands to it ---

\* what the walker yields for one entry below the root
Entry(name, kind, parent, size) ==
    [name |-> name, kind |-> kind, parent |-> parent, size |-> size]

\* add_node and set_size for every entry, as the walker loop does
RECURSIVE AddEntries(_, _)
AddEntries(t, entries) ==
    IF entries = << >> THEN t
    ELSE LET e == Head(entries)
             added == add_node(t, e.name, e.kind, e.parent)
         IN  AddEntries(set_size(added.tree, added.id, e.size), Tail(entries))

\* the tree a completed scan returns: built, aggregated, sorted
Scanned(root_name, entries) ==
    sort_by_size(aggregate_sizes(AddEntries(DiskTree_new(root_name), entries)))

\* proj/{target/{x.o}, a.txt}
ProjectTree ==
    Scanned("proj", << Entry("target", "Directory", ROOT, 0),
                       Entry("a.txt", "File", ROOT, 1),
                       Entry("x.o", "File", ROOT + 1, 2) >>)

\* a scan started inside a build directory: build/{f, g}
BuildDirTree ==
    Scanned("build", << Entry("f", "File", ROOT, 1),
                        Entry("g", "File", ROOT, 1) >>)

ScannedTrees == {ProjectTree, BuildDirTree}

NoThreads ==
    [threads |-> {}, single |-> << >>, multi |-> << >>, started |-> {}, spawned |-> 0]

AppInit ==
    /\ TreeIdle
    /\ ScanIdle
    /\ CallIdle
    /\ app = AppState_new
    /\ del = NoThreads

\* keys reach the Browsing handlers only in Browsing mode
Browsing == app.mode = "Browsing"

SetTree ==
    /\ app.mode = "Scanning"
    /\ \E t \in ScannedTrees : app' = set_tree(app, t)
    /\ UNCHANGED << treeVars, scan, del, call >>

\* Up, Down, k, j outside selecting mode
MoveUp ==
    /\ Browsing /\ ~app.selecting_mode
    /\ app' = move_up(app)
    /\ UNCHANGED << treeVars, scan, del, call >>

MoveDown ==
    /\ Browsing /\ ~app.selecting_mode
    /\ app' = move_down(app)
    /\ UNCHANGED << treeVars, scan, del, call >>

Toggle ==
    /\ Browsing
    /\ app' = toggle_selected(app)
    /\ UNCHANGED << treeVars, scan, del, call >>

DrillDown ==
    /\ Browsing
    /\ Len(app.history) < MaxHistory
    /\ app' = drill_down(app)
    /\ UNCHANGED << treeVars, scan, del, call >>

\* Backspace, or Esc with nothing selected
GoBack ==
    /\ Browsing
    /\ app' = go_back(app)
    /\ UNCHANGED << treeVars, scan, del, call >>

NextView ==
    /\ Browsing
    /\ app' = next_view(app)
    /\ UNCHANGED << treeVars, scan, del, call >>

PrevView ==
    /\ Browsing
    /\ app' = prev_view(app)
    /\ UNCHANGED << treeVars, scan, del, call >>

ToggleSelect ==
    /\ Browsing
    /\ app' = toggle_select(app)
    /\ UNCHANGED << treeVars, scan, del, call >>

SelectUp ==
    /\ Browsing
    /\ app' = select_move_up(app)
    /\ UNCHANGED << treeVars, scan, del, call >>

SelectDown ==
    /\ Browsing
    /\ app' = select_move_down(app)
    /\ UNCHANGED << treeVars, scan, del, call >>

SelectPageUp ==
    /\ Browsing
    /\ app' = select_page_up(app)
    /\ UNCHANGED << treeVars, scan, del, call >>

SelectPageDown ==
    /\ Browsing
    /\ app' = select_page_down(app)
    /\ UNCHANGED << treeVars, scan, del, call >>

SelectToFirst ==
    /\ Browsing
    /\ app' = select_to_first(app)
    /\ UNCHANGED << treeVars, scan, del, call >>

SelectToLast ==
    /\ Browsing
    /\ app' = select_to_last(app)
    /\ UNCHANGED << treeVars, scan, del, call >>

\* Esc with a selection or in selecting mode
ClearSelection ==
    /\ Browsing
    /\ app.selected_nodes # {} \/ app.selecting_mode
    /\ app' = clear_selection(app)
    /\ UNCHANGED << treeVars, scan, del, call >>

\* the key d in Browsing mode; while a delete is in progress the key can be
\* pressed any number of times
Delete ==
    /\ Browsing
    /\ del.spawned < MaxDeletes \/ app.delete_receiver \/ app.multi_delete_progress.some
    /\ \E deduped \in IterationOrders(dedup_selected_nodes(app)) :
            app' = request_delete(app, deduped)
    /\ UNCHANGED << treeVars, scan, del, call >>

ConfirmDelete ==
    /\ app.mode = "ConfirmDelete"
    /\ app' = confirm_delete(app)
    /\ del' = IF app.pending_delete = NoNode THEN del
              ELSE LET node_id == app.pending_delete
                   IN  [del EXCEPT
                           !.threads = @ \cup {DeleteThread(node_id,
                                                   SizeOrZero(app, node_id), FALSE)},
                           !.single = << >>,
                           !.started = @ \cup {node_id},
                           !.spawned = @ + 1]
    /\ UNCHANGED << treeVars, scan, call >>

CancelDelete ==
    /\ app.mode = "ConfirmDelete"
    /\ app' = cancel_delete(app)
    /\ UNCHANGED << treeVars, scan, del, call >>

ConfirmMultiDelete ==
    /\ app.mode = "ConfirmMultiDelete"
    /\ app' = confirm_multi_delete(app)
    /\ del' = IF ~app.pending_multi_delete.some THEN del
              ELSE LET items == app.pending_multi_delete.items
                       ids == {items[i].id : i \in 1 .. Len(items)}
                   IN  [del EXCEPT
                           !.threads = @ \cup {DeleteThread(items[i].id, items[i].size, TRUE) :
                                                   i \in 1 .. Len(items)},
                           !.multi = << >>,
                           !.started = @ \cup ids,
                           !.spawned = @ + Len(items)]
    /\ UNCHANGED << treeVars, scan, call >>

CancelMultiDelete ==
    /\ app.mode = "ConfirmMultiDelete"
    /\ app' = cancel_multi_delete(app)
    /\ UNCHANGED << treeVars, scan, del, call >>

\* a delete thread ends: remove_dir_all or remove_file has returned, the result
\* is sent on the thread's channel
DeleteThreadEnds ==
    /\ \E th \in del.threads, ok \in BOOLEAN :
        LET result == [ok |-> ok, id |-> th.id, size |-> th.size]
        IN  del' = [del EXCEPT !.threads = @ \ {th},
                               !.single = IF th.multi THEN @ ELSE Append(@, result),
                               !.multi = IF th.multi THEN Append(@, result) ELSE @]
    /\ UNCHANGED << treeVars, scan, app, call >>

\* the loop's poll_delete finds the result of the single delete
PollDelete ==
    /\ app.delete_receiver
    /\ del.single # << >>
    /\ app' = poll_delete(app, Head(del.single))
    /\ del' = [del EXCEPT !.single = Tail(@)]
    /\ UNCHANGED << treeVars, scan, call >>

\* poll_multi_delete finds results on the shared channel; the event loop polls
\* the result channels on every tick, as it does with poll_delete
PollMultiDelete ==
    /\ app.multi_delete_progress.some
    /\ del.multi # << >>
    /\ app' = poll_multi_delete(app, del.multi)
    /\ del' = [del EXCEPT !.multi = << >>]
    /\ UNCHANGED << treeVars, scan, call >>

AppNext ==
    \/ SetTree
    \/ MoveUp
    \/ MoveDown
    \/ Toggle
    \/ DrillDown
    \/ GoBack
    \/ NextView
    \/ PrevView
    \/ ToggleSelect
    \/ SelectUp
    \/ SelectDown
    \/ SelectPageUp
    \/ SelectPageDown
    \/ SelectToFirst
    \/ SelectToLast
    \/ ClearSelection
    \/ Delete
    \/ ConfirmDelete
    \/ CancelDelete
    \/ ConfirmMultiDelete
    \/ CancelMultiDelete
    \/ DeleteThreadEnds
    \/ PollDelete
    \/ PollMultiDelete

SpecApp == AppInit /\ [][AppNext]_vars

\* a spawned delete thread runs to its send, and the event loop comes round to
\* its polls on every tick
SpecAppFair ==
    /\ AppInit
    /\ [][AppNext]_vars
    /\ WF_vars(DeleteThreadEnds)
    /\ WF_vars(PollDelete)
    /\ WF_vars(PollMultiDelete)

\* the key ? in Browsing mode
ShowHelp ==
    /\ Browsing
    /\ app' = show_help(app)
    /\ UNCHANGED << treeVars, scan, del, call >>

\* Esc, q or ? in Help mode
HideHelp ==
    /\ app.mode = "Help"
    /\ app' = hide_help(app)
    /\ UNCHANGED << treeVars, scan, del, call >>

\* the app with its help overlay
AppHelpNext ==
    \/ AppNext
    \/ ShowHelp
    \/ HideHelp

SpecAppHelp == AppInit /\ [][AppHelpNext]_vars

\* C4: NodeId::ROOT is never a deletion target: it is never the pending single
\* delete, never an item of the pending multi-delete, and no delete thread is
\* ever started on the root's path
C4_RootNeverDeletionTarget ==
    /\ app.pending_delete # ROOT
    /\ \A i \in 1 .. Len(app.pending_multi_delete.items) :
            app.pending_multi_delete.items[i].id # ROOT
    /\ ROOT \notin del.started

\* C18: NodeId::ROOT is never in selected_nodes, whatever the view mode and the
\* view root, after any sequence of toggle_select, select_move_up,
\* select_move_down, select_page_up, select_page_down, select_to_first,
\* select_to_last, add_to_selection and clear_selection
C18_RootNeverSelected == ROOT \notin app.selected_nodes

\* nodes are selected and the cursor is on the root's row
C18_Witness ==
    /\ app.mode = "Browsing"
    /\ app.selected_nodes # {}
    /\ selected_node(app) = ROOT

\* a delete is in progress: the single delete's receiver or the multi-delete's
\* progress record is there
DeleteInProgress(a) == a.delete_receiver \/ a.multi_delete_progress.some

\* the modes in which request_delete may leave the app when the Delete key is
\* handled in this state; the key reaches request_delete in Browsing mode only
ModesAfterDelete ==
    {request_delete(app, deduped).mode :
        deduped \in IterationOrders(dedup_selected_nodes(app))}

\* C19 as stated: from Browsing, a Delete action with an empty selection set
\* moves the app to ConfirmDelete, and a Delete action with a non-empty
\* selection set moves it to ConfirmMultiDelete
C19_DeleteAsksForConfirmation ==
    app.mode = "Browsing" =>
        ModesAfterDelete = {IF app.selected_nodes = {} THEN "ConfirmDelete"
                            ELSE "ConfirmMultiDelete"}

\* C19: from Browsing with no delete in progress, a Delete action with an empty
\* selection set and a live node under the cursor moves the app to
\* ConfirmDelete, and a Delete action with a selection set that holds a live
\* node moves it to ConfirmMultiDelete; every other Delete action leaves the
\* app in Browsing
C19_DeleteAsksUnlessBusyOrEmpty ==
    app.mode = "Browsing" =>
        ModesAfterDelete =
            {IF DeleteInProgress(app) THEN "Browsing"
             ELSE IF app.selected_nodes = {}
                 THEN IF IsLive(app.tree, selected_node(app)) THEN "ConfirmDelete"
                      ELSE "Browsing"
             ELSE IF \E id \in app.selected_nodes : IsLive(app.tree, id)
                 THEN "ConfirmMultiDelete"
             ELSE "Browsing"}

\* the Delete key has been handled with a selection and no delete in progress,
\* and the app asks for the confirmation of a multi-delete
C19_Witness ==
    /\ app.mode = "ConfirmMultiDelete"
    /\ app.pending_multi_delete.some
    /\ app.selected_nodes # {}
    /\ ~DeleteInProgress(app)

\* the step is confirm_multi_delete: threads are spawned from the dialog of a
\* multi-delete
MultiDeleteConfirmed ==
    app.mode = "ConfirmMultiDelete" /\ del'.spawned > del.spawned

\* what confirm_multi_delete leaves, but for the cursor: the items and their
\* descendants tombstoned, the selection empty, the flags set, the progress
\* record new
OptimisticRemoval ==
    LET items == app.pending_multi_delete.items
    IN  /\ \A i \in 1 .. Len(items) :
            /\ ~IsLive(app'.tree, items[i].id)
            /\ \A d \in Descendants(app.tree, items[i].id) : ~IsLive(app'.tree, d)
        /\ app'.selected_nodes = {}
        /\ app'.computed_views.dirty
        /\ app'.tree_modified
        /\ app'.mode = "MultiDeleting"
        /\ app'.multi_delete_progress.some
        /\ app'.multi_delete_progress.total = Len(items)
        /\ app'.multi_delete_progress.completed = 0

\* C20: immediately after confirm_multi_delete returns, every pending
\* item and all of its descendants are tombstoned in the tree, the selection set
\* is empty, views.dirty and tree_modified are true, the cursor index of the
\* active view is within the list that view shows, mode is MultiDeleting, and
\* the progress record has total = number of items and completed = 0
C20_OptimisticCursorInList ==
    [][MultiDeleteConfirmed =>
        /\ OptimisticRemoval
        /\ current_selected_index(app') < current_item_count(app')]_vars

\* a multi-delete of two items has been confirmed in the tree view, no result
\* has been received, and the cursor is on the last row of the list
C20_Witness ==
    /\ app.mode = "MultiDeleting"
    /\ app.view_mode = "Tree"
    /\ app.multi_delete_progress.total = 2
    /\ app.multi_delete_progress.completed = 0
    /\ del.multi = << >>
    /\ current_selected_index(app) = current_item_count(app) - 1

\* the workers of the batch that have not sent their result yet
Workers == {th \in del.threads : th.multi}

\* while a batch is in progress: every worker has sent one result or is still
\* to send one, completed counts the results received and stays below total,
\* and the mode is MultiDeleting
BatchAccounting ==
    app.multi_delete_progress.some =>
        /\ Cardinality(Workers) + Len(del.multi)
              + app.multi_delete_progress.completed = app.multi_delete_progress.total
        /\ app.multi_delete_progress.completed < app.multi_delete_progress.total
        /\ app.mode = "MultiDeleting"

\* C21: a multi-delete batch always finishes: each of the total workers posts
\* exactly one result, completed never exceeds total, the app stays in
\* MultiDeleting while completed < total, and with workers and polls scheduled
\* fairly the app reaches Browsing with multi_delete_progress cleared
C21_BatchFinishes ==
    /\ [](BatchAccounting /\ (app.mode = "MultiDeleting" => app.multi_delete_progress.some))
    /\ (app.mode = "MultiDeleting") ~>
            (app.mode = "Browsing" /\ ~app.multi_delete_progress.some /\ Workers = {})

\* a batch of two has finished with one success and one failure
C21_Witness ==
    /\ app.mode = "Browsing"
    /\ ~app.multi_delete_progress.some
    /\ app.session_stats.items_deleted = 1
    /\ app.error_message = ErrorMessage("Delete failed: {path}: {e}", 1,
                                        app.error_message.path)
    /\ del.threads = {} /\ del.multi = << >> /\ del.spawned = 2

\* the step is a poll_delete that finds the result of the single delete
SingleResultReceived == app.delete_receiver /\ ~app'.delete_receiver

\* the step is a poll_multi_delete that finds results of the batch
BatchResultsReceived ==
    app.multi_delete_progress.some /\ app'.multi_delete_progress # app.multi_delete_progress

\* the ids of the Failure results among `results`, in order
FailedIn(results) ==
    LET Failed(r) == ~r.ok
        failed == SelectSeq(results, Failed)
    IN  [i \in 1 .. Len(failed) |-> failed[i].id]

\* the node a failed delete was issued for is still a tombstone; the root is
\* never one, remove_node refuses it
StaysRemoved(results) ==
    \A id \in SeqToSet(FailedIn(results)) : id # ROOT => ~IsLive(app'.tree, id)

\* C22: delete failures are surfaced and never rolled back: a poll that
\* receives results leaves the tree as it is, the nodes of failed deletes stay
\* tombstoned, error_message is set when the single delete fails and when a
\* batch finishes with at least one failure, and a batch without a failure
\* leaves error_message as it was
C22_FailuresSurfacedNotRolledBack ==
    [][/\ SingleResultReceived =>
            /\ app'.tree = app.tree
            /\ StaysRemoved(<< Head(del.single) >>)
            /\ app'.error_message =
                  IF Head(del.single).ok THEN app.error_message
                  ELSE ErrorMessage("Delete failed: {e}", 1, NoNode)
       /\ BatchResultsReceived =>
            LET failed == app.multi_delete_progress.failures \o FailedIn(del.multi)
            IN  /\ app'.tree = app.tree
                /\ StaysRemoved(del.multi)
                /\ app'.error_message =
                      IF app'.multi_delete_progress.some \/ failed = << >>
                          THEN app.error_message
                      ELSE IF Len(failed) = 1
                          THEN ErrorMessage("Delete failed: {path}: {e}", 1, failed[1])
                      ELSE ErrorMessage("{n} deletions failed (first: {e})",
                                        Len(failed), failed[1])]_vars

\* a batch of two has finished, both deletes failed, the message names the
\* count, and the two nodes are tombstones
C22_Witness ==
    /\ app.mode = "Browsing"
    /\ del.spawned = 2 /\ del.threads = {} /\ del.multi = << >>
    /\ ~app.multi_delete_progress.some
    /\ app.error_message.count = 2
    /\ app.session_stats.items_deleted = 0
    /\ \A id \in del.started : ~IsLive(app.tree, id)

\* the results the polls of this step receive
Received ==
    IF SingleResultReceived THEN << Head(del.single) >>
    ELSE IF BatchResultsReceived THEN del.multi
    ELSE << >>

\* the Success results among `results`
Successes(results) ==
    LET Succeeded(r) == r.ok
    IN  SelectSeq(results, Succeeded)

\* the sum of the sizes the results carry
RECURSIVE SumSizes(_)
SumSizes(results) ==
    IF results = << >> THEN 0 ELSE Head(results).size + SumSizes(Tail(results))

\* C23: session statistics count only successful deletions: they start at
\* zero, every step adds to items_deleted the number of Success results it
\* receives and to bytes_freed the sizes those carry, so a Failure and a step
\* that receives nothing change neither; a batch starts with completed = 0 and
\* no failure, every poll adds the results it receives to completed and the
\* Failures among them to failures, and the batch finishes on the poll that
\* brings completed to total
C23_StatsCountSuccesses ==
    /\ app.session_stats = [bytes_freed |-> 0, items_deleted |-> 0]
    /\ [][/\ app'.session_stats.items_deleted =
                app.session_stats.items_deleted + Len(Successes(Received))
          /\ app'.session_stats.bytes_freed =
                app.session_stats.bytes_freed + SumSizes(Successes(Received))
          /\ MultiDeleteConfirmed =>
                /\ app'.multi_delete_progress.completed = 0
                /\ app'.multi_delete_progress.failures = << >>
          /\ BatchResultsReceived =>
                LET before == app.multi_delete_progress
                    after == app'.multi_delete_progress
                IN  IF after.some
                        THEN /\ after.completed = before.completed + Len(Received)
                             /\ after.completed < after.total
                             /\ after.total = before.total
                             /\ Len(after.failures) = Len(before.failures)
                                    + Len(Received) - Len(Successes(Received))
                        ELSE before.completed + Len(Received) = before.total]_vars

\* a batch of two has finished, one delete succeeded and freed a byte, the
\* other failed
C23_Witness ==
    /\ app.mode = "Browsing"
    /\ del.spawned = 2 /\ del.threads = {} /\ del.multi = << >>
    /\ app.session_stats = [bytes_freed |-> 1, items_deleted |-> 1]
    /\ app.error_message.count = 1

ViewModes == {"Tree", "LargeFiles", "BuildArtifacts"}

\* the cursor and the list length of view vm, the active one or not
ViewCursor(a, vm) ==
    LET shown == [a EXCEPT !.view_mode = vm]
    IN  [selected_index |-> current_selected_index(shown),
         scroll_offset |-> current_scroll_offset(shown),
         count |-> current_item_count(shown)]

\* the cursor is on a row of the list, and the row is in the window
CursorDiscipline(c, visible_height) ==
    /\ c.count > 0 => c.selected_index < c.count
    /\ c.scroll_offset <= c.selected_index
    /\ c.selected_index < c.scroll_offset + visible_height

\* C24: cursor/scroll discipline: for each view (tree, large files, build
\* artifacts), after any navigation, expansion, view-switch or delete action,
\* the view's selected_index is within [0, count) whenever count > 0, and
\* scroll_offset <= selected_index < scroll_offset + visible_height
C24_CursorScrollDiscipline ==
    app.tree # NoTree =>
        \A vm \in ViewModes : CursorDiscipline(ViewCursor(app, vm), app.visible_height)

\* every entry of the list names a live node of t and carries its size
EntriesCurrent(t, entries) ==
    \A i \in 1 .. Len(entries) :
        /\ IsLive(t, entries[i].node_id)
        /\ entries[i].size = get(t, entries[i].node_id).size

\* C27: dirty-flag discipline: every app action that removes a node from the
\* tree sets views.dirty, and rebuild clears it; hence in every reachable
\* state with views.dirty = false, every entry of large_files and
\* build_artifacts names a live node and carries that node's current size
C27_DirtyFlagDiscipline ==
    /\ [](app.tree # NoTree /\ ~app.computed_views.dirty =>
            /\ EntriesCurrent(app.tree, app.computed_views.large_files)
            /\ EntriesCurrent(app.tree, app.computed_views.build_artifacts))
    /\ [][/\ (app.tree # NoTree /\ LiveIds(app'.tree) # LiveIds(app.tree)) =>
                app'.computed_views.dirty
          /\ (app'.tree # NoTree
                /\ << app'.computed_views.large_files, app'.computed_views.build_artifacts >>
                    # << app.computed_views.large_files, app.computed_views.build_artifacts >>) =>
                /\ ~app'.computed_views.dirty
                /\ app'.computed_views = rebuild(app'.tree)]_vars

\* a file was deleted in the large-files view and the views were rebuilt by a
\* view switch: the flag is clear and the lists are those of the smaller tree
C27_Witness ==
    /\ app.mode = "Browsing"
    /\ app.tree_modified
    /\ ~app.computed_views.dirty
    /\ app.view_mode = "BuildArtifacts"
    /\ Len(app.computed_views.large_files) = 1
    /\ app.session_stats.items_deleted = 1

\* the step leaves a confirmation dialog without spawning a delete thread: the
\* dialog was cancelled
DialogCancelled ==
    /\ app.mode \in {"ConfirmDelete", "ConfirmMultiDelete"}
    /\ app'.mode # app.mode
    /\ del'.spawned = del.spawned

\* C31: a dialog is left either by its confirmation, which spawns delete
\* threads, or by its cancellation, and the cancellation changes nothing but
\* the mode, which is Browsing, and the pending item or items, which are gone:
\* tree, selection set, selecting_mode, cursors, scroll offsets, views and
\* session statistics are as they were, and no delete thread is started.
C31_CancelLeavesOnlyTheDialog ==
    [][DialogCancelled =>
        /\ app' = [app EXCEPT !.mode = "Browsing",
                              !.pending_delete = NoNode,
                              !.pending_multi_delete = NoPendingMulti]
        /\ app'.tree = app.tree
        /\ app'.selected_nodes = app.selected_nodes
        /\ app'.selecting_mode = app.selecting_mode
        /\ \A vm \in ViewModes : ViewCursor(app', vm) = ViewCursor(app, vm)
        /\ app'.computed_views = app.computed_views
        /\ app'.session_stats = app.session_stats
        /\ del' = del]_vars

\* the dialog of a multi-delete of two items, asked for in selecting mode with
\* the list scrolled, which a cancellation has to leave as they are
C31_Witness ==
    /\ app.mode = "ConfirmMultiDelete"
    /\ Len(app.pending_multi_delete.items) = 2
    /\ Cardinality(app.selected_nodes) = 2
    /\ app.selecting_mode
    /\ app.scroll_offset > 0

\* C32: the tree the app holds is the tree of a completed scan, aggregated and
\* sorted, with nothing done to it since but remove_node calls: in every such
\* tree the children of every live node are in non-increasing order of size.
C32_ChildrenStaySorted == app.tree # NoTree => IsSorted(app.tree)

\* the nodes on the way from root down to the parent of n, both included, for
\* a node n below root
PathToParent(t, root, n) ==
    {a \in Ancestors(t, n) : a = root \/ root \in Ancestors(t, a)}

\* v lists, without repetition, root first, exactly the nodes of root's subtree
\* that have every node between root and themselves expanded
ListsTheUnfolded(t, root, v) ==
    /\ v[1] = root
    /\ \A i, j \in 1 .. Len(v) : v[i] = v[j] => i = j
    /\ \A n \in Ids(t) :
          n \in SeqToSet(v) <=>
              \/ n = root
              \/ /\ root \in Ancestors(t, n)
                 /\ \A a \in PathToParent(t, root, n) : get(t, a).is_expanded

\* v is in pre-order: a node's subtree is the run of entries that begins at the
\* node, and brothers come in the order of their parent's children
InPreOrder(t, v) ==
    /\ \A j \in 1 .. Len(v) :
          \A i \in 1 .. Len(v) :
              v[i] \in Ancestors(t, v[j]) =>
                  /\ i < j
                  /\ \A k \in i + 1 .. j - 1 : v[i] \in Ancestors(t, v[k])
    /\ \A i, j \in 1 .. Len(v) :
          LET p == get(t, v[i]).parent
          IN  (p # NoParent /\ get(t, v[j]).parent = p /\ i < j) =>
                  IndexOf(get(t, p).children, v[i]) < IndexOf(get(t, p).children, v[j])

\* C33: whatever live node of the app's tree is taken as root, visible_nodes(root)
\* starts with root, lists no node twice, lists a descendant of root iff every
\* node from root to the descendant's parent is expanded, so nothing below a
\* collapsed directory, and is in pre-order with children in their parent's order.
C33_VisibleNodesPreOrder ==
    app.tree # NoTree =>
        \A root \in LiveIds(app.tree) :
            /\ ListsTheUnfolded(app.tree, root, visible_nodes(app.tree, root))
            /\ InPreOrder(app.tree, visible_nodes(app.tree, root))

\* the root is collapsed and a directory below it, which holds a file, is
\* expanded: the listing from the root is the root alone, the listing from the
\* directory shows the file
C33_Witness ==
    /\ app.tree # NoTree
    /\ ~get(app.tree, ROOT).is_expanded
    /\ visible_nodes(app.tree, ROOT) = << ROOT >>
    /\ \E d \in LiveIds(app.tree) :
          /\ d # ROOT
          /\ get(app.tree, d).is_expanded
          /\ Len(visible_nodes(app.tree, d)) = 2

\* C34: the receiver of a single delete and the progress record of a batch
\* are never there together, the threads that have not ended all belong to the
\* one operation in progress, and the Delete key handled while a delete is in
\* progress leaves the app exactly as it is: no dialog, no pending item.
C34_OneDeleteInFlight ==
    /\ ~(app.delete_receiver /\ app.multi_delete_progress.some)
    /\ \A th \in del.threads :
          IF th.multi THEN app.multi_delete_progress.some ELSE app.delete_receiver
    /\ Cardinality(del.threads \ Workers) <= 1
    /\ Cardinality(Workers) <= app.multi_delete_progress.total
    /\ DeleteInProgress(app) =>
          /\ \A deduped \in IterationOrders(dedup_selected_nodes(app)) :
                request_delete(app, deduped) = app
          /\ app.pending_delete = NoNode
          /\ ~app.pending_multi_delete.some

\* a single delete is in progress, its thread has not ended, and the user, back
\* in Browsing mode, has a live row under the cursor that the Delete key would
\* ask for if nothing were in progress
C34_Witness ==
    /\ app.mode = "Browsing"
    /\ app.delete_receiver
    /\ del.threads # {}
    /\ app.selected_nodes = {}
    /\ IsLive(app.tree, selected_node(app))

\* C35: in every state of the app, the help overlay included, the mode is
\* ConfirmDelete exactly when pending_delete is present, ConfirmMultiDelete
\* exactly when pending_multi_delete is present, which then holds at least one
\* item, and MultiDeleting exactly when multi_delete_progress is present.
C35_ModeAgreesWithPending ==
    /\ (app.mode = "ConfirmDelete") <=> (app.pending_delete # NoNode)
    /\ (app.mode = "ConfirmMultiDelete") <=> app.pending_multi_delete.some
    /\ app.pending_multi_delete.some => app.pending_multi_delete.items # << >>
    /\ ~app.pending_multi_delete.some => app.pending_multi_delete = NoPendingMulti
    /\ (app.mode = "MultiDeleting") <=> app.multi_delete_progress.some

\* a batch of two, confirmed from its dialog, with one result received
C35_Witness ==
    /\ app.mode = "MultiDeleting"
    /\ app.multi_delete_progress.total = 2
    /\ app.multi_delete_progress.completed = 1
    /\ app.pending_delete = NoNode
    /\ ~app.pending_multi_delete.some

\* C40: a step that takes the app out of Help mode is the handling of HideHelp:
\* it changes the mode, to Browsing, and nothing else, and no result of a delete
\* thread is received in it; every other step taken in Help mode, the
\* completion of a single delete among them, leaves the mode Help.
C40_HelpLeftOnlyByUser ==
    [][(app.mode = "Help" /\ app'.mode # "Help") =>
            /\ app' = hide_help(app)
            /\ del' = del]_vars

\* the tree as the scan handed it to the app
OriginalTree == CHOOSE t \in ScannedTrees : t[1].name = app.tree[1].name

\* what the root has lost since the scan
DropInTotalSize == get(OriginalTree, ROOT).size - get(app.tree, ROOT).size

\* the sum of field f of the pending items' nodes, read from the tree t
RECURSIVE SumItems(_, _, _)
SumItems(t, items, f) ==
    IF items = << >> THEN 0
    ELSE get(t, Head(items).id)[f] + SumItems(t, Tail(items), f)

\* the sum of the sizes that the delete threads of the set S carry
RECURSIVE SumThreads(_)
SumThreads(S) ==
    IF S = {} THEN 0
    ELSE LET th == CHOOSE x \in S : TRUE
         IN  th.size + SumThreads(S \ {th})

\* the sizes, as scanned, of the nodes whose delete has failed
RECURSIVE SumFailed(_)
SumFailed(failures) ==
    IF failures = << >> THEN 0
    ELSE get(OriginalTree, Head(failures)).size + SumFailed(Tail(failures))

\* the batch in progress is the first deletion of the session
FirstDeletion == del.spawned = app.multi_delete_progress.total

\* C38: the step that confirms a multi-delete takes from the root's size exactly
\* the sum of the sizes recorded in the pending items, which are the sizes of
\* the items' nodes, and from the root's file_count the sum of their file
\* counts.  While the batch is in progress, the bytes it has freed, the sizes
\* the outstanding and the failed deletes carry add up to what the root has
\* lost, and a batch that ends without a failure leaves the session's
\* bytes_freed equal to the drop in the tree's total size.
C38_BatchFreesWhatItLists ==
    /\ [][MultiDeleteConfirmed =>
            LET items == app.pending_multi_delete.items
            IN  /\ SumSizes(items) = SumItems(app.tree, items, "size")
                /\ get(app'.tree, ROOT).size + SumSizes(items)
                      = get(app.tree, ROOT).size
                /\ get(app'.tree, ROOT).file_count
                      + SumItems(app.tree, items, "file_count")
                      = get(app.tree, ROOT).file_count]_vars
    /\ []((app.multi_delete_progress.some /\ FirstDeletion) =>
            /\ app.session_stats.bytes_freed = app.multi_delete_progress.bytes_freed
            /\ app.multi_delete_progress.bytes_freed + SumSizes(del.multi)
                  + SumThreads(Workers) + SumFailed(app.multi_delete_progress.failures)
                  = DropInTotalSize)
    /\ [][(/\ app.multi_delete_progress.some
           /\ FirstDeletion
           /\ ~app'.multi_delete_progress.some
           /\ app'.error_message = NoError) =>
              app'.session_stats.bytes_freed
                  = get(OriginalTree, ROOT).size - get(app'.tree, ROOT).size]_vars

\* a batch of two files, every worker succeeded: the tree has lost two bytes
\* and the session has freed two
C38_Witness ==
    /\ app.mode = "Browsing"
    /\ app.session_stats.items_deleted = 2
    /\ app.session_stats.bytes_freed = 2
    /\ app.error_message = NoError
    /\ DropInTotalSize = 2

\* C39: in every state of the app that holds a tree, view_root and every entry
\* of the drill-down history are live nodes, and no NodeId that
\* visible_nodes(view_root) lists is a tombstone.
C39_NavigationOnLiveNodes ==
    app.tree # NoTree =>
        /\ IsLive(app.tree, app.view_root)
        /\ \A i \in 1 .. Len(app.history) : IsLive(app.tree, app.history[i])
        /\ \A id \in SeqToSet(app_visible_nodes(app)) : IsLive(app.tree, id)


\* ---------------------------------------------------------------------------
\* The virtual-path filter (dux-core/src/scanner/walker.rs)
\*
\* A path is the sequence of its pieces: the separator "/" and names.  The
\* string of a path (to_string_lossy) is the concatenation of the pieces, and
\* no name used here occurs inside another, so one sequence of pieces occurs
\* in another exactly when the one string occurs in the other.
\* ---------------------------------------------------------------------------

SLOW_PATTERNS ==
    << << "/", "Volumes", "/" >>,
       << "/", ".Spotlight-V100" >>,
       << "/", ".fseventsd" >>,
       << "/", ".DocumentRevisions-V100" >>,
       << "/", "System", "/", "Volumes", "/", "Data", "/", ".Spotlight-V100" >>,
       << "CoreSimulator", "/", "Volumes" >>,
       << "/", ".MobileBackups" >>,
       << ".timemachine" >>,
       << "/", "dev", "/" >>,
       << "/", "proc", "/" >>,
       << "/", "sys", "/" >>,
       << "/", "private", "/", "var", "/", "folders" >>,
       << "/", "private", "/", "var", "/", "db", "/", "dyld" >>,
       << "/", "private", "/", "var", "/", "db", "/", "uuidtext" >> >>

\* str::contains
contains(str, pattern) ==
    \E i \in 0 .. Len(str) - Len(pattern) :
        SubSeq(str, i + 1, i + Len(pattern)) = pattern

\* Path::components: the root directory if the path starts with a separator,
\* then the names between separators; repeated and trailing separators vanish
RECURSIVE NameComponents(_, _)
NameComponents(path, name) ==
    IF path = << >> THEN (IF name = << >> THEN << >> ELSE << name >>)
    ELSE IF Head(path) = "/"
        THEN (IF name = << >> THEN << >> ELSE << name >>)
                \o NameComponents(Tail(path), << >>)
    ELSE NameComponents(Tail(path), Append(name, Head(path)))

components(path) ==
    (IF path # << >> /\ Head(path) = "/" THEN << << "/" >> >> ELSE << >>)
        \o NameComponents(path, << >>)

\* Path::starts_with: component by component
starts_with(path, base) ==
    LET pc == components(path)
        bc == components(base)
    IN  Len(bc) <= Len(pc) /\ SubSeq(pc, 1, Len(bc)) = bc

\* the filter as it would be without its first test
is_virtual_without_root_test(path, root_path) ==
    \E i \in 1 .. Len(SLOW_PATTERNS) :
        contains(path, SLOW_PATTERNS[i]) /\ ~contains(root_path, SLOW_PATTERNS[i])

\* Path == compares component by component; the loop over SLOW_PATTERNS
\* returns true at the first pattern found in the path and not in the root
is_virtual_or_slow_path(path, root_path) ==
    IF components(path) = components(root_path) \/ starts_with(root_path, path)
        THEN FALSE
        ELSE \E i \in 1 .. Len(SLOW_PATTERNS) :
                contains(path, SLOW_PATTERNS[i]) /\ ~contains(root_path, SLOW_PATTERNS[i])

\* the calls: paths of up to MaxPathLen pieces, roots of up to MaxRootLen
FilterInit ==
    LET PathPieces == {"/", ".timemachine", ".fseventsd", "dev"}
        PathsUpTo(n) == UNION {[1 .. k -> PathPieces] : k \in 0 .. n}
    IN  /\ TreeIdle
        /\ ScanIdle
        /\ AppIdle
        /\ \E path \in PathsUpTo(MaxPathLen), root_path \in PathsUpTo(MaxRootLen) :
              call = [fn |-> "is_virtual_or_slow_path", path |-> path,
                      root_path |-> root_path, returned |-> FALSE, ret |-> FALSE]

FilterCall ==
    /\ ~call.returned
    /\ call' = [call EXCEPT !.returned = TRUE,
                            !.ret = is_virtual_or_slow_path(call.path, call.root_path)]
    /\ UNCHANGED << treeVars, scan, appVars >>

SpecFilter == FilterInit /\ [][FilterCall]_vars

\* the forbidden substrings that occur in a path's string
ForbiddenIn(str) ==
    {i \in 1 .. Len(SLOW_PATTERNS) : contains(str, SLOW_PATTERNS[i])}

CACHE_VERSION == 1

SPOT_CHECK_LIMIT == 32    \* the limit run_app hands to spot_check_mtimes

CACHE_MAGIC == << 68, 85, 88, 67 >>    \* b"DUXC"

\* NodeKind in the order of its variants, which is the order of their indices
NodeKindVariants == << "Directory", "File", "Symlink", "Error" >>

\* the length of the UTF-8 scalar a byte string starts with, 0 when it starts
\* with none (overlong forms and surrogates are not told apart)
Utf8Len(b) ==
    LET cont(i) == i <= Len(b) /\ b[i] >= 128 /\ b[i] <= 191
    IN  IF b[1] < 128 THEN 1
        ELSE IF b[1] >= 194 /\ b[1] <= 223 /\ cont(2) THEN 2
        ELSE IF b[1] >= 224 /\ b[1] <= 239 /\ cont(2) /\ cont(3) THEN 3
        ELSE IF b[1] >= 240 /\ b[1] <= 244 /\ cont(2) /\ cont(3) /\ cont(4) THEN 4
        ELSE 0

\* str::from_utf8(b).is_ok()
RECURSIVE is_utf8(_)
is_utf8(b) ==
    IF b = << >> THEN TRUE
    ELSE LET n == Utf8Len(b)
         IN  n > 0 /\ is_utf8(SubSeq(b, n + 1, Len(b)))

\* OsStr::to_string_lossy: what is not UTF-8 becomes U+FFFD (EF BF BD)
RECURSIVE to_string_lossy(_)
to_string_lossy(b) ==
    IF b = << >> THEN << >>
    ELSE LET n == Utf8Len(b)
         IN  IF n = 0 THEN << 239, 191, 189 >> \o to_string_lossy(Tail(b))
             ELSE SubSeq(b, 1, n) \o to_string_lossy(SubSeq(b, n + 1, Len(b)))

\* Path::join: an absolute path replaces the base; a separator is put in
\* unless the base is empty or ends with one
join(base, name) ==
    IF name # << >> /\ name[1] = 47 THEN name
    ELSE IF base = << >> \/ base[Len(base)] = 47 THEN base \o name
    ELSE base \o << 47 >> \o name

\* u32::to_le_bytes
to_le_bytes(n) ==
    << n % 256, (n \div 256) % 256, (n \div 65536) % 256, (n \div 16777216) % 256 >>

\* u32::from_le_bytes; the numbers from 2^30 on, which are above every length
\* and every checksum of the model, are all read as 2^30
from_le_bytes(b) ==
    IF b[4] >= 64 THEN 1073741824
    ELSE b[1] + 256 * b[2] + 65536 * b[3] + 16777216 * b[4]

\* crc32fast::hash.  Of CRC-32 the model keeps that it is a function of the
\* bytes and of their positions, that a change of one byte always changes it,
\* and that distinct byte strings may share it: a polynomial in the bytes
\* modulo the prime 32749, summed by halves.
crc32(data) ==
    LET RECURSIVE pow(_)
        pow(k) ==
            IF k = 0 THEN 1
            ELSE IF k % 2 = 0 THEN (pow(k \div 2) * pow(k \div 2)) % 32749
            ELSE (256 * pow(k - 1)) % 32749
        RECURSIVE poly(_, _)
        poly(lo, hi) ==
            IF lo > hi THEN 0
            ELSE IF lo = hi THEN data[lo] + 1
            ELSE LET mid == (lo + hi) \div 2
                 IN  (poly(lo, mid) * pow(hi - mid) + poly(mid + 1, hi)) % 32749
    IN  (pow(Len(data)) + poly(1, Len(data))) % 32749

\* postcard's varint: seven bits a byte, low bits first, bit 7 set on all but
\* the last byte
RECURSIVE varint(_)
varint(n) ==
    IF n < 128 THEN << n >> ELSE << 128 + (n % 128) >> \o varint(n \div 128)

\* postcard (to_allocvec) of one field after the other.  The types:
\* "u" unsigned, "s" string or path, "b" bool, "t" SystemTime, "ou"
\* Option<usize>, "ot" Option<SystemTime>, "op" Option<NodeId>, "vu"
\* Vec<NodeId>, "k" NodeKind
RECURSIVE ser_fields(_, _)
ser_field(ty, v) ==
    CASE ty = "u" -> varint(v)
      [] ty = "s" -> varint(Len(v)) \o v
      [] ty = "b" -> << IF v THEN 1 ELSE 0 >>
      [] ty = "t" -> ser_fields(<< "u", "u" >>, v)
      [] ty = "ou" -> IF v = << >> THEN << 0 >> ELSE << 1 >> \o varint(v[1])
      [] ty = "ot" -> IF v = << >> THEN << 0 >>
                      ELSE << 1 >> \o ser_fields(<< "u", "u" >>, v)
      [] ty = "op" -> IF v = NoParent THEN << 0 >> ELSE << 1 >> \o varint(v)
      [] ty = "vu" -> varint(Len(v)) \o ser_fields([i \in 1 .. Len(v) |-> "u"], v)
      [] ty = "k" -> varint(IndexOf(NodeKindVariants, v) - 1)

ser_fields(tys, vs) ==
    IF tys = << >> THEN << >>
    ELSE ser_field(Head(tys), Head(vs)) \o ser_fields(Tail(tys), Tail(vs))

\* what a decoder returns: the value and the position after it, or a failure
Decoded(v, pos) == [ok |-> TRUE, v |-> v, pos |-> pos]

DecodeError == [ok |-> FALSE, v |-> << >>, pos |-> 0]

\* a decoded field before the decoded rest; the rest is decoded only when
\* the field was
Prepend(r, rest) ==
    IF r.ok /\ rest.ok THEN Decoded(<< r.v >> \o rest.v, rest.pos) ELSE DecodeError

\* a varint of more than four bytes is beyond the numbers of the model
RECURSIVE de_varint(_, _, _)
de_varint(d, pos, nbytes) ==
    IF pos > Len(d) \/ nbytes > 4 THEN DecodeError
    ELSE IF d[pos] < 128 THEN Decoded(d[pos], pos + 1)
    ELSE LET r == de_varint(d, pos + 1, nbytes + 1)
         IN  IF r.ok THEN Decoded((d[pos] - 128) + 128 * r.v, r.pos)
             ELSE DecodeError

\* postcard (from_bytes) of one field after the other: the end of the input,
\* a bool or an Option tag above 1, a variant index above 3 and a string that
\* is not UTF-8 are errors
RECURSIVE de_fields(_, _, _)
de_field(d, pos, ty) ==
    LET n == de_varint(d, pos, 1)
        tagged(some) ==
            IF pos > Len(d) \/ d[pos] > 1 THEN DecodeError
            ELSE IF d[pos] = 0 THEN Decoded(<< >>, pos + 1)
            ELSE de_fields(d, pos + 1, some)
    IN  CASE ty = "u" -> n
          [] ty = "s" ->
                IF ~n.ok \/ n.pos + n.v - 1 > Len(d) THEN DecodeError
                ELSE IF ~is_utf8(SubSeq(d, n.pos, n.pos + n.v - 1)) THEN DecodeError
                ELSE Decoded(SubSeq(d, n.pos, n.pos + n.v - 1), n.pos + n.v)
          [] ty = "b" ->
                IF pos > Len(d) \/ d[pos] > 1 THEN DecodeError
                ELSE Decoded(d[pos] = 1, pos + 1)
          [] ty = "t" -> de_fields(d, pos, << "u", "u" >>)
          [] ty = "ou" -> tagged(<< "u" >>)
          [] ty = "ot" -> tagged(<< "u", "u" >>)
          [] ty = "op" ->
                IF pos > Len(d) \/ d[pos] > 1 THEN DecodeError
                ELSE IF d[pos] = 0 THEN Decoded(NoParent, pos + 1)
                ELSE de_varint(d, pos + 1, 1)
          [] ty = "vu" ->
                IF ~n.ok \/ n.v > Len(d) THEN DecodeError
                ELSE de_fields(d, n.pos, [i \in 1 .. n.v |-> "u"])
          [] ty = "k" ->
                IF ~n.ok \/ n.v > 3 THEN DecodeError
                ELSE Decoded(NodeKindVariants[n.v + 1], n.pos)

de_fields(d, pos, tys) ==
    IF tys = << >> THEN Decoded(<< >>, pos)
    ELSE LET r == de_field(d, pos, Head(tys))
         IN  Prepend(r, de_fields(d, r.pos, Tail(tys)))

\* CacheMetadata and, inside it, CachedScanConfig, in the order of their fields
MetadataTypes == << "u", "s", "t", "t", "u", "u", "b", "b", "ou" >>

\* TreeNode in the order of its fields: id, name, kind, size, file_count,
\* parent, children, depth, is_expanded, mtime; path is skipped
TreeNodeTypes == << "u", "s", "k", "u", "u", "op", "vu", "u", "b", "ot" >>

\* postcard::to_allocvec(meta)
serialize_metadata(meta) ==
    ser_fields(MetadataTypes,
               << meta.version, meta.root_path, meta.scan_time, meta.root_mtime,
                  meta.total_size, meta.node_count, meta.config.follow_symlinks,
                  meta.config.same_filesystem, meta.config.max_depth >>)

\* CacheMetadata of its decoded fields
MetadataOf(r) ==
    IF ~r.ok THEN DecodeError
    ELSE Decoded([version |-> r.v[1], root_path |-> r.v[2], scan_time |-> r.v[3],
                  root_mtime |-> r.v[4], total_size |-> r.v[5],
                  node_count |-> r.v[6],
                  config |-> [follow_symlinks |-> r.v[7],
                              same_filesystem |-> r.v[8],
                              max_depth |-> r.v[9]]], r.pos)

\* postcard::from_bytes::<CacheMetadata>
deserialize_metadata(d) == MetadataOf(de_fields(d, 1, MetadataTypes))

\* postcard::to_allocvec(tree): the Vec<Option<TreeNode>>, then root_path
serialize_tree(t) ==
    LET RECURSIVE slots(_)
        slots(i) ==
            IF i > Len(t.nodes) THEN << >>
            ELSE (IF ~t.nodes[i].live THEN << 0 >>
                  ELSE << 1 >> \o
                       ser_fields(TreeNodeTypes,
                                  << i - 1, t.nodes[i].name, t.nodes[i].kind,
                                     t.nodes[i].size, t.nodes[i].file_count,
                                     t.nodes[i].parent, t.nodes[i].children,
                                     t.nodes[i].depth, t.nodes[i].is_expanded,
                                     t.nodes[i].mtime >>))
                 \o slots(i + 1)
    IN  varint(Len(t.nodes)) \o slots(1) \o ser_field("s", t.root_path)

\* TreeNode of its decoded fields; a skipped path is the empty path
NodeOf(v) ==
    [live |-> TRUE, name |-> v[2], kind |-> v[3], size |-> v[4],
     file_count |-> v[5], parent |-> v[6], children |-> v[7], depth |-> v[8],
     is_expanded |-> v[9], mtime |-> v[10], path |-> << >>]

\* DiskTree of its decoded fields; root_path is decoded only when the nodes were
TreeOf(nodes, root_path) ==
    IF ~nodes.ok \/ ~root_path.ok THEN DecodeError
    ELSE Decoded([nodes |-> nodes.v, root_path |-> root_path.v], root_path.pos)

\* postcard::from_bytes::<DiskTree>
deserialize_tree(d) ==
    LET count == de_varint(d, 1, 1)
        RECURSIVE slots(_, _, _)
        slots(pos, left, acc) ==
            IF left = 0 THEN Decoded(acc, pos)
            ELSE IF pos > Len(d) \/ d[pos] > 1 THEN DecodeError
            ELSE IF d[pos] = 0 THEN slots(pos + 1, left - 1, Append(acc, Tombstone))
            ELSE LET r == de_fields(d, pos + 1, TreeNodeTypes)
                 IN  IF ~r.ok THEN DecodeError
                     ELSE slots(r.pos, left - 1, Append(acc, NodeOf(r.v)))
        nodes == slots(count.pos, count.v, << >>)
    IN  IF ~count.ok \/ count.v > Len(d) THEN DecodeError
        ELSE TreeOf(nodes, de_field(d, nodes.pos, "s"))

\* ------------------------------------------------------- tree/arena.rs
\* rebuild_paths: the root's path, then the slots in ascending order
rebuild_paths(t) ==
    LET rooted == IF IsLive(t.nodes, ROOT)
                  THEN [t.nodes EXCEPT ![1].path = t.root_path] ELSE t.nodes
        RECURSIVE loop(_, _)
        loop(nodes, i) ==
            IF i >= Len(nodes) THEN nodes
            ELSE IF nodes[i + 1].live /\ IsLive(nodes, nodes[i + 1].parent)
            THEN loop([nodes EXCEPT ![i + 1].path =
                            join(get(nodes, nodes[i + 1].parent).path,
                                 nodes[i + 1].name)], i + 1)
            ELSE loop(nodes, i + 1)
    IN  [t EXCEPT !.nodes = loop(rooted, 1)]

\* ------------------------------------------------------- cache/mod.rs
\* save_cache: the bytes it writes
save_cache(t, meta) ==
    LET meta_bytes == serialize_metadata(meta)
        tree_bytes == serialize_tree(t)
        data == CACHE_MAGIC \o to_le_bytes(CACHE_VERSION)
                    \o to_le_bytes(Len(meta_bytes)) \o meta_bytes
                    \o to_le_bytes(Len(tree_bytes)) \o tree_bytes
    IN  data \o to_le_bytes(crc32(data))

Loaded(meta, t) == [ok |-> TRUE, error |-> "", meta |-> meta, tree |-> t]

CacheError(text) == [ok |-> FALSE, error |-> text, meta |-> << >>, tree |-> << >>]

\* load_cache as it would be if it did not verify the checksum
load_cache_unverified(data) ==
    LET checksum_offset == Len(data) - 4
        meta_len == from_le_bytes(SubSeq(data, 9, 12))
        meta == deserialize_metadata(SubSeq(data, 13, 12 + meta_len))
        offset == 12 + meta_len
        tree_len == from_le_bytes(SubSeq(data, offset + 1, offset + 4))
        t == deserialize_tree(SubSeq(data, offset + 5, offset + 4 + tree_len))
    IN  IF Len(data) < 20 THEN CacheError("Cache file too small")
        ELSE IF SubSeq(data, 1, 4) # CACHE_MAGIC THEN CacheError("Invalid cache magic")
        ELSE IF from_le_bytes(SubSeq(data, 5, 8)) # CACHE_VERSION
            THEN CacheError("Cache version mismatch")
        ELSE IF 12 + meta_len > checksum_offset
            THEN CacheError("Invalid metadata length")
        ELSE IF ~meta.ok THEN CacheError("Failed to deserialize metadata")
        ELSE IF offset + 4 + tree_len > checksum_offset
            THEN CacheError("Invalid tree length")
        ELSE IF ~t.ok THEN CacheError("Failed to deserialize tree")
        ELSE Loaded(meta.v, rebuild_paths(t.v))

\* load_cache: the metadata and the tree, or the error
load_cache(data) ==
    LET checksum_offset == Len(data) - 4
        meta_len == from_le_bytes(SubSeq(data, 9, 12))
        meta == deserialize_metadata(SubSeq(data, 13, 12 + meta_len))
        offset == 12 + meta_len
        tree_len == from_le_bytes(SubSeq(data, offset + 1, offset + 4))
        t == deserialize_tree(SubSeq(data, offset + 5, offset + 4 + tree_len))
    IN  IF Len(data) < 20 THEN CacheError("Cache file too small")
        ELSE IF from_le_bytes(SubSeq(data, checksum_offset + 1, Len(data)))
                    # crc32(SubSeq(data, 1, checksum_offset))
            THEN CacheError("Cache checksum mismatch")
        ELSE IF SubSeq(data, 1, 4) # CACHE_MAGIC THEN CacheError("Invalid cache magic")
        ELSE IF from_le_bytes(SubSeq(data, 5, 8)) # CACHE_VERSION
            THEN CacheError("Cache version mismatch")
        ELSE IF 12 + meta_len > checksum_offset
            THEN CacheError("Invalid metadata length")
        ELSE IF ~meta.ok THEN CacheError("Failed to deserialize metadata")
        ELSE IF offset + 4 + tree_len > checksum_offset
            THEN CacheError("Invalid tree length")
        ELSE IF ~t.ok THEN CacheError("Failed to deserialize tree")
        ELSE Loaded(meta.v, rebuild_paths(t.v))

\* --- one cache file: written after a scan or a delete, read at the next start

\* the walker's add_node for one entry: the node's path is the entry's path,
\* its name the lossy string of the entry's file name; a directory gets its
\* mtime, a file its size
walk_entry(t, file_name, kind, parent) ==
    LET added == add_node(t.nodes, to_string_lossy(file_name), kind, parent)
        node == get(added.tree, added.id)
                    @@ [path |-> join(get(t.nodes, parent).path, file_name),
                        mtime |-> IF is_directory(kind) THEN << 300, 5 >> ELSE << >>]
    IN  [t EXCEPT !.nodes =
            [added.tree EXCEPT ![added.id + 1] =
                [node EXCEPT !.size = IF is_directory(kind) THEN 0 ELSE 1]]]

\* scan_sync starts on a root: the root node with its path and its mtime
ScanRoot(root_name, root_path) ==
    [nodes |-> << DiskTree_new(root_name)[1]
                    @@ [path |-> root_path, mtime |-> << 300, 5 >>] >>,
     root_path |-> root_path]

\* the CacheMetadata main.rs saves with a tree
CacheMetadata(t, root_path, max_depth) ==
    [version |-> CACHE_VERSION, root_path |-> root_path,
     scan_time |-> << 400, 0 >>, root_mtime |-> << 300, 5 >>,
     total_size |-> SnapshotSize(t.nodes, ROOT),
     node_count |-> live_count(t.nodes),
     config |-> [follow_symlinks |-> FALSE, same_filesystem |-> TRUE,
                 max_depth |-> max_depth]]

\* a scan of /r begins
CacheInit ==
    /\ TreeIdle
    /\ ScanIdle
    /\ AppIdle
    /\ call = [fn |-> "cache", pc |-> "walk",
               tree |-> ScanRoot(<< 114 >>, << 47, 114 >>),
               meta |-> << >>, file |-> << >>, altered |-> FALSE,
               result |-> CacheError("")]

\* the walker yields an entry: a file or a directory, named a or by the one
\* byte FF, inside a directory of the tree
ScanAddsEntry ==
    /\ call.pc = "walk"
    /\ Len(call.tree.nodes) <= MaxEntries
    /\ \E file_name \in {<< 97 >>, << 255 >>}, kind \in {"Directory", "File"},
          parent \in {i \in Ids(call.tree.nodes) :
                        is_directory(call.tree.nodes[i + 1].kind)} :
            call' = [call EXCEPT !.tree = walk_entry(@, file_name, kind, parent)]
    /\ UNCHANGED << treeVars, scan, appVars >>

\* the scan finishes: sizes aggregated, children sorted
ScanCompletes ==
    /\ call.pc = "walk"
    /\ call' = [call EXCEPT !.pc = "scanned",
                            !.tree.nodes = sort_by_size(aggregate_sizes(@))]
    /\ UNCHANGED << treeVars, scan, appVars >>

\* the user deletes a node below the root
DeleteNode ==
    /\ call.pc = "scanned"
    /\ \E id \in LiveIds(call.tree.nodes) \ {ROOT} :
            call' = [call EXCEPT !.tree.nodes = remove_node(@, id).tree]
    /\ UNCHANGED << treeVars, scan, appVars >>

\* main.rs writes the cache, after the scan or at exit after a delete
SaveCache ==
    /\ call.pc = "scanned"
    /\ \E max_depth \in {<< >>, << 1 >>} :
        LET meta == CacheMetadata(call.tree, call.tree.root_path, max_depth)
        IN  call' = [call EXCEPT !.pc = "saved", !.meta = meta,
                                 !.file = save_cache(call.tree, meta)]
    /\ UNCHANGED << treeVars, scan, appVars >>

\* the file loses its end
Truncate ==
    /\ call.pc = "saved"
    /\ ~call.altered
    /\ \E k \in 0 .. Len(call.file) - 1 :
            call' = [call EXCEPT !.file = SubSeq(@, 1, k), !.altered = TRUE]
    /\ UNCHANGED << treeVars, scan, appVars >>

\* one byte of the file changes
ChangeByte ==
    /\ call.pc = "saved"
    /\ ~call.altered
    /\ \E i \in 1 .. Len(call.file) :
            call' = [call EXCEPT !.file[i] = (@ + 1) % 256, !.altered = TRUE]
    /\ UNCHANGED << treeVars, scan, appVars >>

\* one byte before the checksum changes and the checksum is written anew, as
\* another program or another version of this one would write the file
ForgeByte ==
    /\ call.pc = "saved"
    /\ ~call.altered
    /\ \E i \in 1 .. Len(call.file) - 4 :
        LET data == [SubSeq(call.file, 1, Len(call.file) - 4)
                        EXCEPT ![i] = (@ + 1) % 256]
        IN  call' = [call EXCEPT !.file = data \o to_le_bytes(crc32(data)),
                                 !.altered = TRUE]
    /\ UNCHANGED << treeVars, scan, appVars >>

\* the next start reads the file
LoadCache ==
    /\ call.pc = "saved"
    /\ call' = [call EXCEPT !.pc = "loaded", !.result = load_cache(call.file)]
    /\ UNCHANGED << treeVars, scan, appVars >>

CacheNext ==
    \/ ScanAddsEntry
    \/ ScanCompletes
    \/ DeleteNode
    \/ SaveCache
    \/ Truncate
    \/ ChangeByte
    \/ ForgeByte
    \/ LoadCache

SpecCache == CacheInit /\ [][CacheNext]_vars

\* C14: load_cache of the file save_cache wrote succeeds and returns the same
\* metadata and a tree with the same slots, live or tombstoned index by index,
\* the same parents, children, kinds, names, sizes and file counts, and every
\* live node's path equal to the path the node had before
C14_CacheRoundTrip ==
    (call.fn = "cache" /\ call.pc = "loaded" /\ ~call.altered) =>
        /\ call.result.ok
        /\ call.result.meta = call.meta
        /\ call.result.tree.root_path = call.tree.root_path
        /\ Len(call.result.tree.nodes) = Len(call.tree.nodes)
        /\ \A i \in 1 .. Len(call.tree.nodes) :
            LET before == call.tree.nodes[i]
                after == call.result.tree.nodes[i]
            IN  /\ after.live = before.live
                /\ before.live =>
                    /\ after.parent = before.parent
                    /\ after.children = before.children
                    /\ after.kind = before.kind
                    /\ after.name = before.name
                    /\ after.size = before.size
                    /\ after.file_count = before.file_count
                    /\ after.path = before.path

\* C15: load_cache returns a Cache error, and no tree, for a file shorter than
\* 20 bytes, a file whose last four bytes are not the CRC32 of the bytes
\* before them (as after a change of one byte before them), a file whose magic
\* is not DUXC, a file whose version is not CACHE_VERSION, and a file whose
\* metadata length or tree length runs past the checksum offset
C15_BadFileIsCacheError ==
    LET data == call.file
        checksum_offset == Len(data) - 4
        meta_len == from_le_bytes(SubSeq(data, 9, 12))
        tree_len == from_le_bytes(SubSeq(data, 13 + meta_len, 16 + meta_len))
        bad == IF Len(data) < 20 THEN TRUE
               ELSE \/ from_le_bytes(SubSeq(data, checksum_offset + 1, Len(data)))
                            # crc32(SubSeq(data, 1, checksum_offset))
                    \/ SubSeq(data, 1, 4) # << 68, 85, 88, 67 >>
                    \/ from_le_bytes(SubSeq(data, 5, 8)) # CACHE_VERSION
                    \/ 12 + meta_len > checksum_offset
                    \/ 16 + meta_len + tree_len > checksum_offset
    IN  (call.fn = "cache" /\ call.pc = "loaded" /\ bad) =>
            /\ ~call.result.ok
            /\ call.result.error # ""
            /\ call.result.tree = << >>

\* a file with a right checksum whose metadata length runs past the checksum
\* offset has been read and refused
C15_Witness ==
    /\ call.fn = "cache"
    /\ call.pc = "loaded"
    /\ call.altered
    /\ Len(call.file) >= 20
    /\ call.result.error = "Invalid metadata length"

\* ---------------------------------------------------------------------------
\* Start-up: the cache or a scan (dux-cli/src/main.rs, cache/mod.rs)
\*
\* The filesystem at start-up is the set of paths that are gone and the set
\* of directories whose mtime has changed since the scan; every other
\* directory still has the mtime the scan saw.
\* ---------------------------------------------------------------------------

\* fs::metadata(path).and_then(|m| m.modified()): the mtime, << >> for Err
modified(fs, path) ==
    IF path \in fs.gone THEN << >>
    ELSE IF path \in fs.changed THEN << 999, 0 >>
    ELSE << 300, 5 >>

\* is_cache_valid; the two root paths are canonical, so that they are equal as
\* paths when they are equal as bytes
is_cache_valid(meta, root, config, fs) ==
    IF meta.config # config THEN FALSE
    ELSE IF meta.root_path # root THEN FALSE
    ELSE modified(fs, root) # << >> /\ modified(fs, root) = meta.root_mtime

\* spot_check_mtimes as it would be if it took the first directories of the
\* arena instead of the largest
spot_check_unsorted(t, limit, fs) ==
    LET dirs == {i \in LiveIds(t.nodes) :
                    is_directory(get(t.nodes, i).kind) /\ get(t.nodes, i).mtime # << >>}
        taken == {i \in dirs : Cardinality({j \in dirs : j < i}) < limit}
    IN  \A i \in taken : modified(fs, get(t.nodes, i).path) = get(t.nodes, i).mtime

\* spot_check_mtimes: the live directories with an mtime, stably sorted by
\* size descending, the first limit of them stat'ed.  A directory's place
\* after the sort is the number of directories that are larger, or as large
\* and earlier in the arena.
spot_check_mtimes(t, limit, fs) ==
    LET dirs == {i \in LiveIds(t.nodes) :
                    is_directory(get(t.nodes, i).kind) /\ get(t.nodes, i).mtime # << >>}
        before(j, i) == \/ get(t.nodes, j).size > get(t.nodes, i).size
                        \/ get(t.nodes, j).size = get(t.nodes, i).size /\ j < i
        taken == {i \in dirs : Cardinality({j \in dirs : before(j, i)}) < limit}
    IN  \A i \in taken : modified(fs, get(t.nodes, i).path) = get(t.nodes, i).mtime

\* the scan of /r that an earlier run cached: MaxDirs directories d1, d2, ...
\* below the root, the last two of them with a file inside
ManyDirsTree ==
    LET RECURSIVE add_dirs(_, _)
        add_dirs(t, i) ==
            IF i > MaxDirs THEN t
            ELSE add_dirs(walk_entry(t, << 100, 48 + i >>, "Directory", ROOT), i + 1)
        dirs == add_dirs(ScanRoot(<< 114 >>, << 47, 114 >>), 1)
        files == walk_entry(walk_entry(dirs, << 102 >>, "File", MaxDirs - 1),
                            << 102 >>, "File", MaxDirs)
    IN  [files EXCEPT !.nodes = sort_by_size(aggregate_sizes(@))]

\* run_app is entered: the cache file of an earlier run, whole or with one
\* byte changed, or no file; with or without --no-cache
StartupInit ==
    /\ TreeIdle
    /\ ScanIdle
    /\ AppIdle
    /\ \E no_cache \in BOOLEAN, exists \in BOOLEAN,
          t \in {ManyDirsTree, ScanRoot(<< 114 >>, << 47, 114 >>)},
          changed \in {0, 40} :
        LET saved == save_cache(t, CacheMetadata(t, t.root_path, << >>))
        IN  call = [fn |-> "run_app", pc |-> "start", no_cache |-> no_cache,
                    exists |-> exists,
                    file |-> IF changed = 0 THEN saved
                             ELSE [saved EXCEPT ![changed] = (@ + 1) % 256],
                    result |-> CacheError(""), path |-> << >>,
                    config |-> << >>, fs |-> << >>,
                    loaded_from_cache |-> FALSE, scanner |-> FALSE,
                    mode |-> "Scanning"]

\* run_app reads the cache file, unless --no-cache is given or there is none
ReadCacheAtStartup ==
    /\ call.fn = "run_app"
    /\ call.pc = "start"
    /\ call' = [call EXCEPT
                    !.pc = "read",
                    !.result = IF ~call.no_cache /\ call.exists
                               THEN load_cache(call.file)
                               ELSE CacheError("not read")]
    /\ UNCHANGED << treeVars, scan, appVars >>

\* run_app checks what it read against the root it was asked for (/r or /q),
\* its scan configuration and the filesystem, and then either hands the tree
\* to the app or starts the scanner
UseCacheOrScan ==
    /\ call.fn = "run_app"
    /\ call.pc = "read"
    /\ \E path \in {<< 47, 114 >>, << 47, 113 >>},
          max_depth \in {<< >>, << 1 >>},
          off \in {<< >>} \cup {<< k, i >> : k \in {"gone", "changed"}, i \in 0 .. MaxDirs} :
        LET config == [follow_symlinks |-> FALSE, same_filesystem |-> TRUE,
                       max_depth |-> max_depth]
            at(i) == IF i = 0 THEN << 47, 114 >>
                     ELSE << 47, 114, 47, 100, 48 + i >>
            fs == [gone |-> IF off # << >> /\ off[1] = "gone"
                            THEN {at(off[2])} ELSE {},
                   changed |-> IF off # << >> /\ off[1] = "changed"
                               THEN {at(off[2])} ELSE {}]
            loaded_from_cache ==
                /\ call.result.ok
                /\ is_cache_valid(call.result.meta, path, config, fs)
                /\ spot_check_mtimes(call.result.tree, SPOT_CHECK_LIMIT, fs)
        IN  call' = [call EXCEPT
                        !.pc = "running", !.path = path, !.config = config,
                        !.fs = fs, !.loaded_from_cache = loaded_from_cache,
                        !.scanner = ~loaded_from_cache,
                        !.mode = IF loaded_from_cache THEN "Browsing"
                                 ELSE "Scanning"]
    /\ UNCHANGED << treeVars, scan, appVars >>

SpecStartup == StartupInit /\ [][ReadCacheAtStartup \/ UseCacheOrScan]_vars

\* the live directories of the cached tree that carry an mtime
DirsWithMtime(t) ==
    {i \in LiveIds(t.nodes) :
        is_directory(get(t.nodes, i).kind) /\ get(t.nodes, i).mtime # << >>}

\* C16: at start-up the cached tree is used in place of a scan (mode Browsing,
\* no scanner started) only if the cache was read without error, the stored
\* scan configuration is the current one, the stored root_path is the root
\* asked for, the root's mtime is the stored root_mtime, and every directory
\* that is among the 32 largest live directories with an mtime (fewer than 32
\* others are as large or larger) can be stat'ed and has its stored mtime;
\* otherwise a scan is started
C16_CacheUsedOnlyIfFresh ==
    (call.fn = "run_app" /\ call.pc = "running") =>
        LET fresh ==
                /\ ~call.no_cache
                /\ call.exists
                /\ call.result.ok
                /\ call.result.meta.config = call.config
                /\ call.result.meta.root_path = call.path
                /\ call.path \notin call.fs.gone
                /\ modified(call.fs, call.path) = call.result.meta.root_mtime
                /\ \A i \in DirsWithMtime(call.result.tree) :
                    LET node == get(call.result.tree.nodes, i)
                        as_large == {j \in DirsWithMtime(call.result.tree) \ {i} :
                                        get(call.result.tree.nodes, j).size >= node.size}
                    IN  Cardinality(as_large) < 32 =>
                            /\ node.path \notin call.fs.gone
                            /\ modified(call.fs, node.path) = node.mtime
        IN  /\ (call.mode = "Browsing" /\ ~call.scanner) => fresh
            /\ call.scanner \/ call.mode = "Browsing"
            /\ ~fresh => (call.scanner /\ call.mode = "Scanning")

\* the cache of a tree of more than 32 directories was used while one of its
\* smaller directories is gone
C16_Witness ==
    /\ call.fn = "run_app"
    /\ call.pc = "running"
    /\ call.mode = "Browsing"
    /\ ~call.scanner
    /\ call.fs.gone # {}
    /\ Cardinality(DirsWithMtime(call.result.tree)) > 32

\* ---------------------------------------------------------------------------
\* dedup_selected_nodes on its own (dux-cli/src/app/state.rs)
\* ---------------------------------------------------------------------------

\* the calls: the app holds a scanned tree of MaxNodes directories below the
\* root, each inside the root or inside an earlier one, and any of them are
\* selected
DedupInit ==
    /\ TreeIdle
    /\ ScanIdle
    /\ AppIdle
    /\ \E parents \in [1 .. MaxNodes -> 0 .. MaxNodes - 1] :
        /\ \A i \in 1 .. MaxNodes : parents[i] < i
        /\ LET t == Scanned("r", [i \in 1 .. MaxNodes |->
                                    Entry("d", "Directory", parents[i], 0)])
           IN  \E selected \in SUBSET (1 .. MaxNodes) :
                call = [fn |-> "dedup_selected_nodes",
                        state |-> [set_tree(AppState_new, t)
                                      EXCEPT !.selected_nodes = selected],
                        returned |-> FALSE, ret |-> << >>]

\* the call returns the ids in the order in which the HashSet hands them out
DedupCall ==
    /\ call.fn = "dedup_selected_nodes"
    /\ ~call.returned
    /\ \E deduped \in IterationOrders(dedup_selected_nodes(call.state)) :
            call' = [call EXCEPT !.returned = TRUE, !.ret = deduped]
    /\ UNCHANGED << treeVars, scan, appVars >>

SpecDedup == DedupInit /\ [][DedupCall]_vars

\* C17: what dedup_selected_nodes returns is a subset of the selection, none
\* of its elements is an ancestor of another, and every selected node is in
\* it or has an ancestor in it
C17_DedupKeepsTopmost ==
    (call.fn = "dedup_selected_nodes" /\ call.returned) =>
        LET D == SeqToSet(call.ret)
            S == call.state.selected_nodes
            t == call.state.tree
        IN  /\ D \subseteq S
            /\ \A d \in D, other \in D : d \notin Ancestors(t, other)
            /\ \A s \in S : s \in D \/ Ancestors(t, s) \cap D # {}

\* a directory, its child and its grandchild are selected and only the
\* directory is returned
C17_Witness ==
    /\ call.fn = "dedup_selected_nodes"
    /\ call.returned
    /\ Cardinality(call.state.selected_nodes) = 3
    /\ Len(call.ret) = 1
    /\ \A s \in call.state.selected_nodes \ {call.ret[1]} :
            call.ret[1] \in Ancestors(call.state.tree, s)
    /\ \E s \in call.state.selected_nodes :
            get(call.state.tree, s).parent \notin {ROOT, call.ret[1]}

\* ---------------------------------------------------------------------------
\* The artifact view and its staleness (dux-cli/src/app/views.rs)
\*
\* A SystemTime is << seconds, nanoseconds >> and a Duration likewise; an
\* Option of either is the pair or << >>.  The nodes of the trees of this
\* section carry their mtime, as the walker sets it.
\* ---------------------------------------------------------------------------

StaleThreshold_next(threshold) ==
    CASE threshold = "OneDay" -> "SevenDays"
      [] threshold = "SevenDays" -> "ThirtyDays"
      [] threshold = "ThirtyDays" -> "NinetyDays"
      [] threshold = "NinetyDays" -> "All"
      [] threshold = "All" -> "OneDay"

\* StaleThreshold::duration
duration(threshold) ==
    CASE threshold = "OneDay" -> << 86400, 0 >>
      [] threshold = "SevenDays" -> << 7 * 86400, 0 >>
      [] threshold = "ThirtyDays" -> << 30 * 86400, 0 >>
      [] threshold = "NinetyDays" -> << 90 * 86400, 0 >>
      [] threshold = "All" -> << >>

\* the order of SystemTime, and of Duration
Before(a, b) == a[1] < b[1] \/ (a[1] = b[1] /\ a[2] < b[2])

\* SystemTime::duration_since(..).ok(): None when `earlier` is later
duration_since(later, earlier) ==
    IF Before(later, earlier) THEN << >>
    ELSE IF later[2] >= earlier[2]
        THEN << later[1] - earlier[1], later[2] - earlier[2] >>
    ELSE << later[1] - earlier[1] - 1, later[2] + 1000000000 - earlier[2] >>

\* .map(|age| age > dur).unwrap_or(false)
OlderThan(age, dur) == IF age = << >> THEN FALSE ELSE Before(dur, age)

\* the is_stale of an entry, as rebuild_build_artifacts and
\* cycle_stale_threshold both compute it
is_stale(threshold, newest_mtime, now) ==
    IF duration(threshold) = << >> THEN TRUE
    ELSE IF newest_mtime = << >> THEN FALSE
    ELSE OlderThan(duration_since(now, newest_mtime), duration(threshold))

\* Some(prev.max(mt)), or whichever is there
NewestOf(newest, mt) ==
    IF mt = << >> THEN newest
    ELSE IF newest = << >> THEN mt
    ELSE IF Before(newest, mt) THEN mt
    ELSE newest

\* the most recent mtime in the subtree of root, root included
RECURSIVE newest_descendant_mtime(_, _), NewestOver(_, _, _)
newest_descendant_mtime(t, root) ==
    IF ~IsLive(t, root) THEN << >>
    ELSE NewestOver(t, get(t, root).children, get(t, root).mtime)

NewestOver(t, cs, newest) ==
    IF cs = << >> THEN newest
    ELSE NewestOver(t, Tail(cs), NewestOf(newest, newest_descendant_mtime(t, Head(cs))))

BuildArtifactEntry(node_id, size, newest_mtime, threshold, now) ==
    [node_id |-> node_id, size |-> size,
     is_stale |-> is_stale(threshold, newest_mtime, now),
     newest_mtime |-> newest_mtime]

\* rebuild_build_artifacts with the staleness fields of its entries
BuildArtifactEntries(t, threshold, now) ==
    [i \in 1 .. Len(rebuild_build_artifacts(t)) |->
        BuildArtifactEntry(rebuild_build_artifacts(t)[i].node_id,
                           rebuild_build_artifacts(t)[i].size,
                           newest_descendant_mtime(t, rebuild_build_artifacts(t)[i].node_id),
                           threshold, now)]

\* ComputedViews::new
ComputedViews_new ==
    [large_files |-> << >>, build_artifacts |-> << >>, dirty |-> TRUE,
     stale_threshold |-> "SevenDays"]

\* ComputedViews::rebuild
ComputedViews_rebuild(views, t, now) ==
    [views EXCEPT !.large_files = rebuild_large_files(t),
                  !.build_artifacts = BuildArtifactEntries(t, views.stale_threshold, now),
                  !.dirty = FALSE]

\* cycle_stale_threshold as it would be if the flags were computed before the
\* threshold is advanced
cycle_stale_threshold_lagging(views, now) ==
    [views EXCEPT !.stale_threshold = StaleThreshold_next(@),
                  !.build_artifacts =
                      [i \in 1 .. Len(views.build_artifacts) |->
                          [views.build_artifacts[i] EXCEPT !.is_stale =
                              is_stale(views.stale_threshold,
                                       views.build_artifacts[i].newest_mtime, now)]]]

cycle_stale_threshold(views, now) ==
    [views EXCEPT !.stale_threshold = StaleThreshold_next(@),
                  !.build_artifacts =
                      [i \in 1 .. Len(views.build_artifacts) |->
                          [views.build_artifacts[i] EXCEPT !.is_stale =
                              is_stale(StaleThreshold_next(views.stale_threshold),
                                       views.build_artifacts[i].newest_mtime, now)]]]

\* --- the views over the trees of a scan ---

\* the clock at the start: day 100, and a bit
Now0 == << 100 * 86400, 5 >>

\* the mtimes a directory may carry: none, a day old to the nanosecond, a
\* nanosecond older than that, ten days old, and one that lies ahead of the clock
Mtimes ==
    {<< >>, << 99 * 86400, 5 >>, << 99 * 86400, 4 >>, << 90 * 86400, 5 >>,
     << 101 * 86400, 0 >>}

\* the nodes of t with mtimes ms on its directories; a file has none
WithMtimes(t, ms) ==
    [i \in 1 .. Len(t) |->
        t[i] @@ [mtime |-> IF is_directory(t[i].kind) THEN ms[i] ELSE << >>]]

\* proj/{node_modules/{sub/{f}}, target}
StaleTrees ==
    {WithMtimes(Scanned("proj", << Entry("node_modules", "Directory", ROOT, 0),
                                   Entry("sub", "Directory", ROOT + 1, 0),
                                   Entry("target", "Directory", ROOT, 0),
                                   Entry("f", "File", ROOT + 2, 1) >>),
                << << >>, m1, m2, m3, << >> >>) : m1 \in Mtimes, m2 \in Mtimes, m3 \in Mtimes}

\* the trees of MaxArtifactNodes entries below a root r: every entry is a
\* file or a directory named target, build or src, inside a directory
ShapeTrees ==
    LET Shapes ==
            {s \in [names : [1 .. MaxArtifactNodes -> {"target", "build", "src"}],
                    kinds : [1 .. MaxArtifactNodes -> {"Directory", "File"}],
                    parents : [1 .. MaxArtifactNodes -> 0 .. MaxArtifactNodes - 1]] :
                \A i \in 1 .. MaxArtifactNodes :
                    /\ s.parents[i] < i
                    /\ s.parents[i] > 0 => s.kinds[s.parents[i]] = "Directory"}
    IN  {WithMtimes(Scanned("r", [i \in 1 .. MaxArtifactNodes |->
                                    Entry(s.names[i], s.kinds[i], s.parents[i],
                                          IF s.kinds[i] = "File" THEN 1 ELSE 0)]),
                    [i \in 1 .. MaxArtifactNodes + 1 |-> << 90 * 86400, 5 >>]) :
            s \in Shapes}

\* set_tree has handed a scanned tree to the app: the views are built, the
\* tree view is shown
ViewsInit ==
    /\ TreeIdle
    /\ ScanIdle
    /\ AppIdle
    /\ \E t \in StaleTrees \cup ShapeTrees :
            call = [fn |-> "views", tree |-> t,
                    views |-> ComputedViews_rebuild(ComputedViews_new, t, Now0),
                    view_mode |-> "Tree", now |-> Now0]

\* Tab and Shift-Tab between the tree view and the artifact view:
\* ensure_views_computed rebuilds the lists when they are dirty
SwitchView ==
    /\ call.fn = "views"
    /\ call' = [call EXCEPT
                   !.view_mode = IF @ = "Tree" THEN "BuildArtifacts" ELSE "Tree",
                   !.views = IF @.dirty THEN ComputedViews_rebuild(@, call.tree, call.now)
                             ELSE @]
    /\ UNCHANGED << treeVars, scan, appVars >>

\* a delete confirmed on the row under the cursor: a row of the tree in the
\* tree view, an entry of the list in the artifact view
DeleteRow ==
    /\ call.fn = "views"
    /\ \E id \in IF call.view_mode = "Tree" THEN LiveIds(call.tree) \ {ROOT}
                 ELSE {call.views.build_artifacts[i].node_id :
                          i \in 1 .. Len(call.views.build_artifacts)} :
            call' = [call EXCEPT !.tree = remove_node(@, id).tree,
                                 !.views.dirty = TRUE]
    /\ UNCHANGED << treeVars, scan, appVars >>

\* the key s in the artifact view
CycleStaleThreshold ==
    /\ call.fn = "views"
    /\ call.view_mode = "BuildArtifacts"
    /\ call' = [call EXCEPT !.views = cycle_stale_threshold(@, call.now)]
    /\ UNCHANGED << treeVars, scan, appVars >>

\* a day goes by
TimePasses ==
    /\ call.fn = "views"
    /\ call.now[1] < Now0[1] + MaxClock * 86400
    /\ call' = [call EXCEPT !.now[1] = @ + 86400]
    /\ UNCHANGED << treeVars, scan, appVars >>

ViewsNext ==
    \/ SwitchView
    \/ DeleteRow
    \/ CycleStaleThreshold
    \/ TimePasses

SpecViews == ViewsInit /\ [][ViewsNext]_vars

\* the step is a cycle_stale_threshold
ThresholdCycled ==
    call.fn = "views" /\ call'.views.stale_threshold # call.views.stale_threshold

\* the step is a rebuild
ViewsRebuilt == call.fn = "views" /\ call.views.dirty /\ ~call'.views.dirty

\* the threshold in days, 0 for All
Days(threshold) ==
    CASE threshold = "OneDay" -> 1
      [] threshold = "SevenDays" -> 7
      [] threshold = "ThirtyDays" -> 30
      [] threshold = "NinetyDays" -> 90
      [] threshold = "All" -> 0

\* the staleness rule: All marks every entry; otherwise an entry is stale iff
\* its newest_mtime is there and now lies after newest_mtime + threshold
StaleRule(threshold, newest_mtime, now) ==
    \/ threshold = "All"
    \/ /\ newest_mtime # << >>
       /\ Before(<< newest_mtime[1] + Days(threshold) * 86400, newest_mtime[2] >>, now)

\* the list but for the is_stale flags
WithoutFlags(entries) ==
    [i \in 1 .. Len(entries) |->
        [node_id |-> entries[i].node_id, size |-> entries[i].size,
         newest_mtime |-> entries[i].newest_mtime]]

NodeIdsOf(entries) == [i \in 1 .. Len(entries) |-> entries[i].node_id]

\* C26: after rebuild, the build-artifact list contains exactly the live
\* directories whose name is in the classifier table and none of whose
\* ancestors has a classified name; hence no listed artifact is an ancestor of
\* another listed artifact, and the list is ordered by size non-increasing
C26_ArtifactRootsListed ==
    (call.fn = "views" /\ ~call.views.dirty) =>
        LET t == call.tree
            list == call.views.build_artifacts
            ids == NodeIdsOf(list)
        IN  /\ SeqToSet(ids) =
                  {id \in LiveIds(t) :
                      /\ get(t, id).kind = "Directory"
                      /\ get(t, id).name \in ArtifactNames
                      /\ \A a \in Ancestors(t, id) : get(t, a).name \notin ArtifactNames}
            /\ \A i, j \in 1 .. Len(ids) :
                  /\ i # j => ids[i] # ids[j]
                  /\ ids[i] \notin Ancestors(t, ids[j])
                  /\ i < j => list[i].size >= list[j].size
            /\ \A i \in 1 .. Len(ids) : list[i].size = get(t, ids[i]).size

\* the lists have been built over a tree in which a directory named build
\* lies two levels below a directory named target, and only the latter is
\* listed
C26_Witness ==
    /\ call.fn = "views"
    /\ ~call.views.dirty
    /\ \E id \in LiveIds(call.tree) :
        /\ get(call.tree, id).name = "build"
        /\ get(call.tree, id).kind = "Directory"
        /\ get(call.tree, id).depth = 3
        /\ get(call.tree, get(call.tree, id).parent).name = "src"
        /\ NodeIdsOf(call.views.build_artifacts)
              = << get(call.tree, get(call.tree, id).parent).parent >>

====
